---- MODULE Spec2Model ----
(***************************************************************************)
(* Dependency detection of mesonbuild/dependencies/base.py.                *)
(*                                                                         *)
(* Python values are encoded as follows.  A keyword argument that may hold *)
(* values of several Python types is a string code: Absent (key not in     *)
(* kwargs), "True"/"False" (bool), any other string (a str), "<int>" (a    *)
(* value that is neither bool, str nor list).  None and False stored in    *)
(* an attribute that otherwise holds a path are PyNone and PyFalse.        *)
(*                                                                         *)
(* Specifications: Spec is a process making one lookup after another       *)
(* through find_external_dependency; SpecIdent, SpecIdentOrder and         *)
(* SpecIdentKeys are pairs of calls of get_dep_identifier whose arguments  *)
(* differ in their list-valued options, in the order of their options and  *)
(* in single options; SpecProgram is one construction of ExternalProgram.  *)
(***************************************************************************)
EXTENDS Integers, Sequences, FiniteSets, TLC

VARIABLES
    platform,      \* what mesonlib.is_osx()/is_windows() report in this process
    cross,         \* environment: is_cross_build() and cross_info.config['binaries']
    class_pkgbin,  \* PkgConfigDependency.class_pkgbin
    writes,        \* number of assignments made to class_pkgbin so far
    native_first,  \* result of the first successful check_pkgconfig() of the process
    pc,            \* "idle": no lookup running; "returned": a lookup has just ended
    call,          \* arguments and surroundings of the lookup that has just ended
    outcome,       \* what that lookup did: the record it returned or the exception
    id_a,          \* arguments (name, kwargs, want_cross) of a get_dep_identifier call
    id_b,          \* arguments of a second call, derived from the first
    id_ka,         \* the identifier returned for id_a
    id_kb,         \* the identifier returned for id_b
    id_pc,         \* "off", "args": arguments chosen, "keyed": identifiers computed
    ep_in,         \* arguments of an ExternalProgram construction and the file system it meets
    ep,            \* the ExternalProgram object that construction built
    ep_pc          \* "new": nothing constructed yet; "built": the constructor has ended

lookup_vars == <<platform, cross, class_pkgbin, writes, native_first, pc, call, outcome>>
id_vars == <<id_a, id_b, id_ka, id_kb, id_pc>>
ep_vars == <<ep_in, ep, ep_pc>>
vars == <<platform, cross, class_pkgbin, writes, native_first, pc, call, outcome,
          id_a, id_b, id_ka, id_kb, id_pc, ep_in, ep, ep_pc>>

----------------------------------------------------------------------------
(* Bounds of the model *)

\* largest number of keys supplied in one kwargs dict
MaxKw == 2
\* the counter of assignments to class_pkgbin stops counting here
MaxWrites == 2
\* largest number of options in the kwargs of a get_dep_identifier call
MaxOpts == 2
\* longest list an option of such a call holds
MaxListLen == 3

----------------------------------------------------------------------------
(* Encoding of Python values *)

Absent == "<absent>"
PyNone == "<None>"
PyFalse == "<False>"

Min(a, b) == IF a < b THEN a ELSE b

\* isinstance(v, bool), isinstance(v, str) on a string-coded keyword value
IsBool(v) == v \in {"True", "False"}
IsStr(v) == v \notin {"True", "False", "<int>", Absent}
\* truth value of a string-coded keyword value
Truthy(v) == v \notin {"False", PyNone, PyFalse, ""}

\* kwargs.get(key, default)
KwGet(v, default) == IF v = Absent THEN default ELSE v

\* A version string: the dotted components when it has any, else the word
\* ("" is the empty string).
VerStr(word, comps) == [word |-> word, comps |-> comps]
VerIsEmpty(v) == v.word = "" /\ v.comps = <<>>

\* One version requirement: optional operator prefix and a version.
Req(op, comps) == [op |-> op, ver |-> comps]

\* exceptions
NoExc == [type |-> "", msg |-> "", reqs |-> <<>>, allowed |-> <<>>, cites |-> ""]
Exc(type, msg) == [NoExc EXCEPT !.type = type, !.msg = msg]
Raised(x) == x.type # ""

\* the result of calling a getter of a record
Ret(v) == [raised |-> "", val |-> v]
Throw(type) == [raised |-> type, val |-> <<>>]

----------------------------------------------------------------------------
(* class DependencyMethods(Enum) *)

DependencyMethods == {"auto", "pkg-config", "qmake", "system", "sdlconfig",
                      "extraframework", "sysconfig"}

(* mlog.format_list over [AUTO] + self.get_methods(): the methods the
   message of the unsupported-method error lists *)
AllowedMethods(get_methods) == <<"auto">> \o get_methods

SeqToSet(s) == {s[i] : i \in 1..Len(s)}

(* Dependency.__init__: the methods selected for a detector whose
   get_methods() is get_methods, given kwargs.get('method'). *)
DependencyInit(get_methods, method) ==
    LET m == KwGet(method, "auto") IN
    IF m \notin DependencyMethods
    THEN [exc |-> Exc("ValueError", "is not a valid DependencyMethods"), methods |-> <<>>]
    ELSE IF m = "auto"
    THEN [exc |-> NoExc, methods |-> get_methods]
    ELSE IF m \in SeqToSet(get_methods)
    THEN [exc |-> NoExc, methods |-> <<m>>]
    ELSE [exc |-> [Exc("MesonException", "Unsupported detection method")
                     EXCEPT !.allowed = AllowedMethods(get_methods)],
          methods |-> <<>>]

----------------------------------------------------------------------------
(* mesonlib.version_compare_many, after section 4.4 of the specification:
   versions are compared component-wise, the shorter one padded with zeros;
   a requirement without operator means "="; all requirements must hold. *)

Component(v, i) == IF i <= Len(v) THEN v[i] ELSE 0

RECURSIVE CmpFrom(_, _, _)
CmpFrom(a, b, i) ==
    IF i > Len(a) /\ i > Len(b) THEN 0
    ELSE IF Component(a, i) < Component(b, i) THEN -1
    ELSE IF Component(a, i) > Component(b, i) THEN 1
    ELSE CmpFrom(a, b, i + 1)

VersionCmp(a, b) == CmpFrom(a, b, 1)

ReqHolds(v, r) ==
    LET c == VersionCmp(v, r.ver) IN
    CASE r.op = "<"  -> c < 0
      [] r.op = "<=" -> c <= 0
      [] r.op = ">=" -> c >= 0
      [] r.op = ">"  -> c > 0
      [] r.op = "!=" -> c # 0
      [] OTHER       -> c = 0

version_compare_many(v, reqs) ==
    LET not_found == SelectSeq(reqs, LAMBDA r : ~ReqHolds(v, r))
        found == SelectSeq(reqs, LAMBDA r : ReqHolds(v, r))
    IN [ok |-> not_found = <<>>, not_found |-> not_found, found |-> found]

----------------------------------------------------------------------------
(* Dependency records.  found, version, compile_args, link_args, sources
   and need_threads are what found(), get_version(), get_compile_args(),
   get_link_args(), get_sources() and need_threads() give on the record. *)

NoDep ==
    [class |-> PyNone, name |-> "null", found |-> FALSE,
     version |-> VerStr(PyNone, <<>>),
     compile_args |-> Ret(<<>>), link_args |-> Ret(<<>>), sources |-> Ret(<<>>),
     need_threads |-> FALSE, methods |-> <<>>,
     pkgbin |-> PyNone, want_cross |-> FALSE]

IsDep(d) == d.class # PyNone

----------------------------------------------------------------------------
(* class PkgConfigDependency *)

\* paths os.path.isabs() accepts
IsAbs(p) == p \in {"/opt/bin/pkg-config", "/usr/bin/pkg-config", "/usr/bin/arm-pkg-config"}

\* shutil.which(name) when it finds the program
Which(name) ==
    CASE name = "pkg-config" -> "/usr/bin/pkg-config"
      [] name = "arm-pkg-config" -> "/usr/bin/arm-pkg-config"
      [] OTHER -> name

\* environment.cross_info.config['binaries']['pkgconfig']
CrossPkgName == "arm-pkg-config"

(* PkgConfigDependency.check_pkgconfig: PKG_CONFIG or 'pkg-config', run
   with --version, made absolute when shutil.which finds it. *)
check_pkgconfig(e) ==
    LET named == IF e.PKG_CONFIG # Absent THEN e.PKG_CONFIG ELSE "pkg-config"
        pkgbin == IF e.tool_runs THEN named ELSE PyFalse
    IN IF Truthy(pkgbin) /\ ~IsAbs(pkgbin) /\ e.which_finds THEN Which(pkgbin) ELSE pkgbin

(* ExternalProgram(pkgname, silent=True) as PkgConfigDependency uses it:
   found() and get_command()[0]. *)
CrossProgram(e) ==
    [found |-> e.which_finds,
     command0 |-> IF e.which_finds THEN Which(CrossPkgName) ELSE PyNone]

\* ResolvePkgbin with `if not PkgConfigDependency.class_pkgbin:` in place of
\* `is None`: a stored failure is searched for again
ResolvePkgbin_SearchesAgain(want_cross, required, e, xc, cpb) ==
    LET base == [exc |-> NoExc, pkgbin |-> PyNone, cpb |-> cpb, w |-> 0,
                 nres |-> PyNone, trace |-> <<>>]
    IN
    IF want_cross
    THEN IF xc # "bin"
         THEN IF Truthy(required)
              THEN [base EXCEPT !.exc = Exc("DependencyException",
                                           "Pkg-config binary missing from cross file")]
              ELSE base
         ELSE IF CrossProgram(e).found
              THEN [base EXCEPT !.pkgbin = CrossProgram(e).command0,
                                !.cpb = CrossProgram(e).command0,
                                !.w = 1, !.trace = <<"ExternalProgram">>]
              ELSE [base EXCEPT !.trace = <<"ExternalProgram">>]
    ELSE IF ~Truthy(cpb)
    THEN [base EXCEPT !.pkgbin = check_pkgconfig(e), !.cpb = check_pkgconfig(e), !.w = 1,
                      !.nres = check_pkgconfig(e), !.trace = <<"check_pkgconfig">>]
    ELSE [base EXCEPT !.pkgbin = cpb]

(* The branch of PkgConfigDependency.__init__ that picks self.pkgbin and
   maintains PkgConfigDependency.class_pkgbin.
   xc: the cross configuration; cpb: class_pkgbin before the lookup. *)
ResolvePkgbin(want_cross, required, e, xc, cpb) ==
    LET base == [exc |-> NoExc, pkgbin |-> PyNone, cpb |-> cpb, w |-> 0,
                 nres |-> PyNone, trace |-> <<>>]
    IN
    IF want_cross
    THEN IF xc # "bin"
         THEN IF Truthy(required)
              THEN [base EXCEPT !.exc = Exc("DependencyException",
                                           "Pkg-config binary missing from cross file")]
              ELSE base
         ELSE LET prog == CrossProgram(e) IN
              IF prog.found
              THEN [base EXCEPT !.pkgbin = prog.command0, !.cpb = prog.command0,
                                !.w = 1, !.trace = <<"ExternalProgram">>]
              ELSE [base EXCEPT !.trace = <<"ExternalProgram">>]
    ELSE IF cpb = PyNone
    THEN LET found == check_pkgconfig(e) IN
         [base EXCEPT !.pkgbin = found, !.cpb = found, !.w = 1, !.nres = found,
                      !.trace = <<"check_pkgconfig">>]
    ELSE [base EXCEPT !.pkgbin = cpb]

\* stdout of `pkg-config --cflags name`, split
CflagsOut == <<"-I/usr/include/pkg">>

\* stdout of `pkg-config name --libs [--static]`, split
LibsOut(e, static) ==
    IF e.libs \in {"la", "la_unresolved"}
    THEN <<"/usr/lib/libpkg.la">>
    ELSE IF static = "True" THEN <<"-lpkg", "-lm">> ELSE <<"-lpkg">>

\* _set_cargs without the test of the exit status
SetCargs_IgnoresExit(e) == [exc |-> NoExc, cargs |-> CflagsOut]

(* PkgConfigDependency._set_cargs *)
SetCargs(e) ==
    IF e.cflags # "ok"
    THEN [exc |-> Exc("DependencyException", "Could not generate cargs"), cargs |-> <<>>]
    ELSE [exc |-> NoExc, cargs |-> CflagsOut]

(* PkgConfigDependency._set_libs: every token ending in .la is replaced by
   the shared library its descriptor names, or the lookup fails. *)
SetLibs(e, static) ==
    IF e.libs = "fail"
    THEN [exc |-> Exc("DependencyException", "Could not generate libs"), libs |-> <<>>]
    ELSE IF e.libs = "la_unresolved"
    THEN [exc |-> Exc("DependencyException", "could not compute the actual shared library path"),
          libs |-> <<>>]
    ELSE IF e.libs = "la"
    THEN [exc |-> NoExc, libs |-> <<"/usr/lib/libpkg.so.0">>]
    ELSE [exc |-> NoExc, libs |-> LibsOut(e, static)]

\* the version 'none' a probe starts with
VerNone == VerStr("none", <<>>)

(* The PkgConfigDependency object with the given attributes, seen through
   found(), get_version(), get_compile_args(), get_link_args() and the
   getters it inherits from Dependency. *)
PkgRecord(name, methods, want_cross, pkgbin, is_found, modversion, cargs, libs) ==
    [class |-> "PkgConfigDependency", name |-> name, found |-> is_found,
     version |-> modversion,
     compile_args |-> Ret(cargs), link_args |-> Ret(libs), sources |-> Ret(<<>>),
     need_threads |-> FALSE, methods |-> methods,
     pkgbin |-> pkgbin, want_cross |-> want_cross]

\* no metadata probe was constructed
NoPkg == [ran |-> FALSE, exc |-> NoExc, dep |-> NoDep, pkgbin |-> PyNone,
          want_cross |-> FALSE, modversion |-> VerNone]

(* What a construction leaves behind: the exception (Failed) or the object
   (Built); class_pkgbin after it (cpb), how often it assigned class_pkgbin
   (w), what check_pkgconfig returned if it ran (nres), the steps taken
   (trace); for a metadata probe the self.pkgbin, self.want_cross and
   self.modversion it ended with; for a detector that runs a probe inside,
   that probe (pkg). *)
Failed(x, cpb, w, nres, trace) ==
    [exc |-> x, dep |-> NoDep, cpb |-> cpb, w |-> w, nres |-> nres, trace |-> trace,
     pkgbin |-> PyNone, want_cross |-> FALSE, modversion |-> VerNone, pkg |-> NoPkg]

Built(d, cpb, w, nres, trace) ==
    [exc |-> NoExc, dep |-> d, cpb |-> cpb, w |-> w, nres |-> nres, trace |-> trace,
     pkgbin |-> PyNone, want_cross |-> FALSE, modversion |-> VerNone, pkg |-> NoPkg]

\* a detector that touches no probe state
Plain(c, cpb) ==
    [exc |-> c.exc, dep |-> c.dep, cpb |-> cpb, w |-> 0, nres |-> PyNone,
     trace |-> c.trace, pkgbin |-> PyNone, want_cross |-> FALSE,
     modversion |-> VerNone, pkg |-> NoPkg]

\* a finished probe as seen by the detector that ran it
PkgOf(p) == [ran |-> TRUE, exc |-> p.exc, dep |-> p.dep, pkgbin |-> p.pkgbin,
             want_cross |-> p.want_cross, modversion |-> p.modversion]

\* CompareVersion with "any requirement met" in place of "all met"
CompareVersion_AnyMet(version, modversion) ==
    IF version.t = Absent
    THEN [ok |-> TRUE, not_found |-> <<>>, found |-> <<>>]
    ELSE LET c == version_compare_many(modversion.comps, version.reqs)
         IN [c EXCEPT !.ok = (c.found # <<>>) \/ (c.not_found = <<>>)]

(* The evaluation of the version requirements in PkgConfigDependency.__init__:
   none given means found; a string is one requirement. *)
CompareVersion(version, modversion) ==
    IF version.t = Absent
    THEN [ok |-> TRUE, not_found |-> <<>>, found |-> <<>>]
    ELSE version_compare_many(modversion.comps, version.reqs)

\* stdout of a failed `pkg-config --modversion name`, stripped
FailedModversionOut == VerStr("", <<>>)

(* PkgConfigDependency.__init__ from the --modversion query on: self.pkgbin
   is set (r is the result of ResolvePkgbin).  A query that exits non-zero
   is traced with a trailing "!". *)
QueryPkgbin(name, kwargs, e, methods, want_cross, required, static, r) ==
    LET mvok == e.mv = "ok"
        t1 == r.trace \o <<IF mvok THEN "--modversion" ELSE "--modversion!">>
        modversion == IF mvok THEN e.mv_out ELSE FailedModversionOut
        rec(found, cargs, libs) ==
            PkgRecord(name, methods, want_cross, r.pkgbin, found, modversion, cargs, libs)
        failed(x, t) == [Failed(x, r.cpb, r.w, r.nres, t) EXCEPT !.modversion = modversion]
        built(d, t) == [Built(d, r.cpb, r.w, r.nres, t) EXCEPT !.modversion = modversion]
    IN
    IF ~mvok
    THEN IF Truthy(required)
         THEN failed(Exc("DependencyException", "dependency not found"), t1)
         ELSE built(rec(FALSE, <<>>, <<>>), t1)
    ELSE IF kwargs.version.t \notin {Absent, "str", "list"}
    THEN failed(Exc("DependencyException", "Version argument must be string or list."), t1)
    ELSE
    LET cmp == CompareVersion(kwargs.version, modversion) IN
    IF ~cmp.ok
    THEN IF Truthy(required)
         THEN failed([Exc("DependencyException", "Invalid version of dependency")
                        EXCEPT !.reqs = cmp.not_found], t1)
         ELSE built(rec(FALSE, <<>>, <<>>), t1)
    ELSE
    LET c == SetCargs(e)
        t2 == r.trace \o <<"--modversion", IF Raised(c.exc) THEN "--cflags!" ELSE "--cflags">>
    IN
    IF Raised(c.exc) THEN failed(c.exc, t2)
    ELSE
    LET l == SetLibs(e, static)
        t3 == t2 \o <<IF e.libs = "fail" THEN "--libs!" ELSE "--libs">>
    IN
    IF Raised(l.exc) THEN failed(l.exc, t3)
    ELSE built(rec(TRUE, c.cargs, l.libs), t3)

\* the result of ResolvePkgbin with the constructor's own trace in front
Traced(t0, r0) == [r0 EXCEPT !.trace = t0 \o r0.trace]

(* PkgConfigDependency.__init__ once self.pkgbin is picked (r is the result
   of ResolvePkgbin): no tool means not-found, else the tool is queried.
   The outcome keeps the probe's pkgbin and want_cross. *)
PkgConfigWithPkgbin(name, kwargs, e, methods, want_cross, required, static, r) ==
    LET out ==
          IF Raised(r.exc) THEN Failed(r.exc, r.cpb, r.w, r.nres, r.trace)
          ELSE IF ~Truthy(r.pkgbin)
          THEN IF Truthy(required)
               THEN Failed(Exc("DependencyException", "Pkg-config not found."),
                           r.cpb, r.w, r.nres, r.trace)
               ELSE Built(PkgRecord(name, methods, want_cross, r.pkgbin, FALSE,
                                    VerNone, <<>>, <<>>),
                          r.cpb, r.w, r.nres, r.trace)
          ELSE QueryPkgbin(name, kwargs, e, methods, want_cross, required, static, r)
    IN [out EXCEPT !.pkgbin = r.pkgbin, !.want_cross = want_cross]

(* PkgConfigDependency.__init__(name, environment, kwargs).
   e: what the outside world answers during this construction;
   xc: the cross configuration of environment; cpb: class_pkgbin before. *)
PkgConfigDependency(name, kwargs, e, xc, cpb) ==
    LET init == DependencyInit(<<"pkg-config">>, kwargs.method)
        required == KwGet(kwargs.required, "True")
        static == KwGet(kwargs.static, "False")
        is_cross == xc # "no"
        want_cross == IF kwargs.native # Absent /\ is_cross
                      THEN ~Truthy(kwargs.native)
                      ELSE is_cross
        t0 == <<"PkgConfigDependency">>
    IN
    IF Raised(init.exc) THEN Failed(init.exc, cpb, 0, PyNone, t0)
    ELSE IF ~IsBool(static)
    THEN Failed(Exc("DependencyException", "Static keyword must be boolean"),
                cpb, 0, PyNone, t0)
    ELSE PkgConfigWithPkgbin(name, kwargs, e, init.methods, want_cross, required, static,
                             Traced(t0, ResolvePkgbin(want_cross, required, e, xc, cpb)))

----------------------------------------------------------------------------
(* class ExtraFrameworkDependency *)

(* ExtraFrameworkDependency.detect over the entries of '/Library/Frameworks':
   e.fw is "absent" (no entry matches the name) or "present" (a directory
   <name>.framework is there). *)
ExtraFrameworkDetect(name, e) == IF e.fw = "present" THEN name ELSE PyNone

(* ExtraFrameworkDependency.get_compile_args / get_link_args / found /
   get_version on an object whose self.name is fwname. *)
ExtraFrameworkRecord(fwname, methods) ==
    LET found == fwname # PyNone IN
    [NoDep EXCEPT
       !.class = "ExtraFrameworkDependency", !.name = fwname, !.found = found,
       !.version = VerStr("unknown", <<>>),
       !.compile_args = Ret(IF found THEN <<"-I/Library/Frameworks/<name>/Headers">>
                                     ELSE <<>>),
       !.link_args = Ret(IF found THEN <<"-F/Library/Frameworks", "-framework", fwname>>
                                  ELSE <<>>),
       !.methods = methods]

(* ExtraFrameworkDependency.__init__(name, required, path=None, kwargs) *)
ExtraFrameworkDependency(name, kwargs, e) ==
    LET init == DependencyInit(<<"auto">>, kwargs.method)
        t0 == <<"ExtraFrameworkDependency">>
    IN
    IF Raised(init.exc) THEN [exc |-> init.exc, dep |-> NoDep, trace |-> t0]
    ELSE [exc |-> NoExc,
          dep |-> ExtraFrameworkRecord(ExtraFrameworkDetect(name, e), init.methods),
          trace |-> t0]

----------------------------------------------------------------------------
(* class ThreadDependency: super().__init__('threads', {}) drops kwargs *)

\* ThreadDependency with Dependency.__init__(self, 'threads', kwargs)
ThreadDependency_KeepsKwargs(kwargs) ==
    LET init == DependencyInit(<<"auto">>, kwargs.method) IN
    IF Raised(init.exc) THEN [exc |-> init.exc, dep |-> NoDep, trace |-> <<"ThreadDependency">>]
    ELSE [exc |-> NoExc,
          dep |-> [NoDep EXCEPT !.class = "ThreadDependency", !.name = "threads",
                                !.found = TRUE, !.version = VerStr("unknown", <<>>),
                                !.need_threads = TRUE, !.methods = init.methods],
          trace |-> <<"ThreadDependency">>]

ThreadDependency(kwargs) ==
    LET init == DependencyInit(<<"auto">>, Absent) IN
    IF Raised(init.exc) THEN [exc |-> init.exc, dep |-> NoDep, trace |-> <<"ThreadDependency">>]
    ELSE [exc |-> NoExc,
          dep |-> [NoDep EXCEPT !.class = "ThreadDependency", !.name = "threads",
                                !.found = TRUE, !.version = VerStr("unknown", <<>>),
                                !.need_threads = TRUE, !.methods = init.methods],
          trace |-> <<"ThreadDependency">>]

----------------------------------------------------------------------------
(* class AppleFrameworks *)

\* kwargs.get('modules', []) with a single string wrapped in a list
ModuleList(modules) == IF modules.t = Absent THEN <<>> ELSE modules.mods

RECURSIVE FrameworkArgs(_)
(* AppleFrameworks.get_link_args *)
FrameworkArgs(frameworks) ==
    IF frameworks = <<>> THEN <<>>
    ELSE <<"-framework", Head(frameworks)>> \o FrameworkArgs(Tail(frameworks))

(* AppleFrameworks.__init__ with found() and the getters *)
AppleFrameworks(kwargs, os) ==
    LET init == DependencyInit(<<"auto">>, kwargs.method)
        modules == ModuleList(kwargs.modules)
        t0 == <<"AppleFrameworks">>
    IN
    IF Raised(init.exc) THEN [exc |-> init.exc, dep |-> NoDep, trace |-> t0]
    ELSE IF modules = <<>>
    THEN [exc |-> Exc("DependencyException",
                      "AppleFrameworks dependency requires at least one module."),
          dep |-> NoDep, trace |-> t0]
    ELSE [exc |-> NoExc,
          dep |-> [NoDep EXCEPT !.class = "AppleFrameworks", !.found = (os = "osx"),
                                !.version = VerStr("unknown", <<>>),
                                !.link_args = Ret(FrameworkArgs(modules)),
                                !.methods = init.methods],
          trace |-> t0]

----------------------------------------------------------------------------
(* class Python3Dependency *)

(* Python3Dependency.get_methods *)
Python3Methods(os) ==
    IF os = "windows" THEN <<"pkg-config", "sysconfig">>
    ELSE IF os = "osx" THEN <<"pkg-config", "extraframework">>
    ELSE <<"pkg-config">>

(* The Python3Dependency object seen through its getters: get_compile_args
   and get_link_args return self.cargs and self.libs, attributes that only
   a successful detection assigns (has_args). *)
Python3Record(methods, is_found, version, has_args, cargs, libs) ==
    [NoDep EXCEPT
       !.class = "Python3Dependency", !.name = "python3", !.found = is_found,
       !.version = version,
       !.compile_args = IF has_args THEN Ret(cargs) ELSE Throw("AttributeError"),
       !.link_args = IF has_args THEN Ret(libs) ELSE Throw("AttributeError"),
       !.methods = methods]

(* Python3Dependency._find_libpy3_windows: e.arch is "unknown" (the target
   cpu family is neither x86 nor x86_64), "mismatch" or "match". *)
FindLibpy3Windows(methods, e) ==
    IF e.arch = "match"
    THEN Python3Record(methods, TRUE, VerStr("", <<3, 6>>), TRUE,
                       <<"-I<include>">>, <<"-L<base>/libs", "-lpython36">>)
    ELSE Python3Record(methods, FALSE, VerStr("", <<3>>), FALSE, <<>>, <<>>)

\* what a Python3Dependency construction leaves: exception x or record d,
\* with the probe p it ran (pkg is what the claims see of it)
Python3Out(x, d, p, pkg, t) ==
    [(IF Raised(x) THEN Failed(x, p.cpb, p.w, p.nres, t)
                   ELSE Built(d, p.cpb, p.w, p.nres, t)) EXCEPT !.pkg = pkg]

(* Python3Dependency.__init__ on OSX after the probe: the framework
   detector fw was constructed for 'python'. *)
Python3Framework(methods, p, pkg, t1, fw) ==
    IF Raised(fw.exc) THEN Python3Out(fw.exc, NoDep, p, pkg, t1 \o fw.trace)
    ELSE IF fw.dep.found
    THEN Python3Out(NoExc, Python3Record(methods, TRUE, VerStr("", <<3>>), TRUE,
                                         fw.dep.compile_args.val, fw.dep.link_args.val),
                    p, pkg, t1 \o fw.trace)
    ELSE Python3Out(NoExc, Python3Record(methods, FALSE, VerStr("", <<3>>), FALSE, <<>>, <<>>),
                    p, pkg, t1 \o fw.trace)

\* Python3Detect with `if not self.is_found:` dropped and no `return` after
\* a found probe: the platform fallback runs whatever the probe yielded
Python3Detect_AlwaysFallback(kwargs, e, os, methods, tried, pkg, p) ==
    LET t1 == <<"Python3Dependency">> \o p.trace IN
    IF os = "windows" /\ "sysconfig" \in SeqToSet(methods)
    THEN Python3Out(NoExc, FindLibpy3Windows(methods, e), p, pkg,
                    t1 \o <<"_find_libpy3_windows">>)
    ELSE IF os = "osx" /\ "extraframework" \in SeqToSet(methods)
    THEN Python3Framework(methods, p, pkg, t1, ExtraFrameworkDependency("python", kwargs, e))
    ELSE IF tried /\ ~Raised(p.exc) /\ p.dep.found
    THEN Python3Out(NoExc, Python3Record(methods, TRUE, p.dep.version, TRUE,
                                         p.dep.compile_args.val, p.dep.link_args.val),
                    p, pkg, t1)
    ELSE Python3Out(NoExc, Python3Record(methods, FALSE, VerStr("", <<3>>), FALSE, <<>>, <<>>),
                    p, pkg, t1)

(* Python3Dependency.__init__ after Dependency.__init__: p is the probe, run
   (tried) only if pkg-config is among the methods; every exception of the
   probe is dropped. *)
Python3Detect(kwargs, e, os, methods, tried, pkg, p) ==
    LET t1 == <<"Python3Dependency">> \o p.trace IN
    IF tried /\ ~Raised(p.exc) /\ p.dep.found
    THEN Python3Out(NoExc, Python3Record(methods, TRUE, p.dep.version, TRUE,
                                         p.dep.compile_args.val, p.dep.link_args.val),
                    p, pkg, t1)
    ELSE IF os = "windows" /\ "sysconfig" \in SeqToSet(methods)
    THEN Python3Out(NoExc, FindLibpy3Windows(methods, e), p, pkg,
                    t1 \o <<"_find_libpy3_windows">>)
    ELSE IF os = "osx" /\ "extraframework" \in SeqToSet(methods)
    THEN Python3Framework(methods, p, pkg, t1, ExtraFrameworkDependency("python", kwargs, e))
    ELSE Python3Out(NoExc, Python3Record(methods, FALSE, VerStr("", <<3>>), FALSE, <<>>, <<>>),
                    p, pkg, t1)

\* Python3Detect with the probe it ran, if any
Python3WithProbe(kwargs, e, os, methods, tried, p) ==
    Python3Detect(kwargs, e, os, methods, tried, IF tried THEN PkgOf(p) ELSE NoPkg, p)

(* Python3Dependency.__init__(environment, kwargs) *)
Python3Dependency(kwargs, e, os, xc, cpb) ==
    LET init == DependencyInit(Python3Methods(os), kwargs.method)
        tried == "pkg-config" \in SeqToSet(init.methods)
    IN
    IF Raised(init.exc) THEN Failed(init.exc, cpb, 0, PyNone, <<"Python3Dependency">>)
    ELSE Python3WithProbe(kwargs, e, os, init.methods, tried,
                          IF tried THEN PkgConfigDependency("python3", kwargs, e, xc, cpb)
                          ELSE Failed(NoExc, cpb, 0, PyNone, <<>>))

----------------------------------------------------------------------------
(* class BoostDependency.  BOOST_LIBRARYDIR is taken to be unset. *)

(* BoostDependency.name2lib.get(module, module) *)
Name2Lib(m) == IF m = "test" THEN "unit_test_framework" ELSE m

\* '-lboost_' + module
LibFlag(m) == IF m = "thread" THEN "-lboost_thread" ELSE "-lboost_<module>"
\* '-lboost_' + module + '-mt'
LibFlagMt(m) == IF m = "thread" THEN "-lboost_thread-mt" ELSE "-lboost_<module>-mt"
\* module + '-mt'
MtName(m) == IF m = "thread" THEN "thread-mt" ELSE "<module>-mt"

(* BoostDependency.detect_version: e.boost_hdr is "missing" (no version.hpp),
   "nodefine" (no BOOST_LIB_VERSION line), "1_63" (the macro is "1_63") or
   "empty" (the macro is ""). *)
BoostDetectVersion(e) ==
    CASE e.boost_hdr = "1_63" -> VerStr("", <<1, 63>>)
      [] e.boost_hdr = "empty" -> VerStr("", <<>>)
      [] OTHER -> VerStr(PyNone, <<>>)

\* validate_requested that accepts every module
BoostFirstMissing_None(requested, src_modules) == PyNone

(* BoostDependency.validate_requested: the first requested module that is
   not a source module, or PyNone *)
RECURSIVE BoostFirstMissing(_, _)
BoostFirstMissing(requested, src_modules) ==
    IF requested = <<>> THEN PyNone
    ELSE IF Head(requested) \notin src_modules THEN Head(requested)
    ELSE BoostFirstMissing(Tail(requested), src_modules)

(* BoostDependency.get_compile_args *)
BoostCompileArgs(boost_root, incdir, os) ==
    LET include_dir == IF boost_root # PyNone
                       THEN IF os = "windows" THEN boost_root ELSE "<BOOST_ROOT>/include"
                       ELSE incdir
    IN IF include_dir # "/usr/include" /\ include_dir # "/usr/local/include"
       THEN <<"-isystem<include_dir>">>
       ELSE <<>>

RECURSIVE BoostModuleArgs(_, _, _, _)
(* the loop over self.requested_modules of BoostDependency.get_link_args *)
BoostModuleArgs(requested, lib_modules, lib_modules_mt, e) ==
    IF requested = <<>> THEN <<>>
    ELSE LET module == Name2Lib(Head(requested))
             here == IF e.boost_find THEN <<LibFlag(module)>>
                     ELSE IF module \in lib_modules \/ module \in lib_modules_mt
                     THEN <<LibFlag(module)>>
                     ELSE IF MtName(module) \in lib_modules_mt
                     THEN <<LibFlagMt(module)>>
                     ELSE <<>>
         IN here \o BoostModuleArgs(Tail(requested), lib_modules, lib_modules_mt, e)

RECURSIVE BoostWinModuleArgs(_, _)
(* the loop of BoostDependency.get_win_link_args *)
BoostWinModuleArgs(requested, lib_modules_mt) ==
    IF requested = <<>> THEN <<>>
    ELSE (IF Name2Lib(Head(requested)) \in lib_modules_mt
          THEN <<"boost_<module>-gd.lib">> ELSE <<>>)
         \o BoostWinModuleArgs(Tail(requested), lib_modules_mt)

(* BoostDependency.get_link_args *)
BoostLinkArgs(boost_root, requested, lib_modules, lib_modules_mt, e, os) ==
    IF os = "windows"
    THEN (IF Truthy(boost_root) THEN <<"-L<libdir>">> ELSE <<>>)
         \o BoostWinModuleArgs(requested, lib_modules_mt)
    ELSE (IF Truthy(boost_root) THEN <<"-L<BOOST_ROOT>/lib">> ELSE <<>>)
         \o BoostModuleArgs(requested, lib_modules, lib_modules_mt, e)

(* BoostDependency.__init__(environment, kwargs) with found() and the getters *)
BoostDependency(kwargs, e, os, xc) ==
    LET init == DependencyInit(<<"auto">>, kwargs.method)
        t0 == <<"BoostDependency">>
        fail(x) == [exc |-> x, dep |-> NoDep, trace |-> t0]
        is_cross == xc # "no"
        want_cross == IF kwargs.native # Absent /\ is_cross
                      THEN ~Truthy(kwargs.native)
                      ELSE is_cross
        env_root == IF e.boost_root = Absent THEN PyNone ELSE e.boost_root
        boost_root == IF env_root = PyNone /\ os = "windows" THEN "<win_root>"
                      ELSE env_root
        incdir == IF env_root # PyNone THEN "<BOOST_ROOT>/include"
                  ELSE IF os = "windows" THEN boost_root
                  ELSE IF e.boost_incvar THEN "/opt/boost/inc"
                  ELSE "/usr/include"
        version == BoostDetectVersion(e)
        requested == ModuleList(kwargs.modules)
        detected == version.word # PyNone
        src_modules == IF detected THEN e.boost_src ELSE {}
        \* names ending in -mt go to lib_modules_mt, on Windows every name does
        libs == IF detected THEN e.boost_lib ELSE {}
        lib_modules == IF os = "windows" THEN {} ELSE libs \ {"thread-mt"}
        lib_modules_mt == IF os = "windows" THEN libs ELSE libs \cap {"thread-mt"}
        missing == BoostFirstMissing(requested, src_modules)
    IN
    IF Raised(init.exc) THEN fail(init.exc)
    ELSE IF env_root # PyNone /\ env_root # "/opt/boost"
    THEN fail(Exc("DependencyException", "BOOST_ROOT must be an absolute path."))
    ELSE IF env_root = PyNone /\ want_cross /\ ~e.boost_incvar
    THEN fail(Exc("DependencyException",
                  "BOOST_ROOT or BOOST_INCLUDEDIR is needed while cross-compiling"))
    ELSE IF "<int>" \in SeqToSet(requested)
    THEN fail(Exc("DependencyException", "Boost module argument is not a string."))
    ELSE IF detected /\ missing # PyNone
    THEN fail([Exc("DependencyException", "Requested Boost module not found.")
                 EXCEPT !.cites = missing])
    ELSE IF ~e.cpp
    THEN fail(Exc("DependencyException",
                  "Tried to use Boost but a C++ compiler is not defined."))
    ELSE [exc |-> NoExc,
          dep |-> [NoDep EXCEPT
                     !.class = "BoostDependency", !.name = "boost",
                     !.found = detected, !.version = version,
                     !.compile_args = Ret(BoostCompileArgs(boost_root, incdir, os)),
                     !.link_args = Ret(BoostLinkArgs(boost_root, requested, lib_modules,
                                                     lib_modules_mt, e, os)),
                     !.need_threads = ("thread" \in SeqToSet(requested)),
                     !.methods = init.methods],
          trace |-> t0]

----------------------------------------------------------------------------
(* find_external_dependency *)

\* name.lower()
Lower(name) == IF name = "Threads" THEN "threads" ELSE name

\* the keys of the dict packages
Packages == {"boost", "appleframeworks", "threads", "python3"}

(* packages[lname](environment, kwargs) *)
PackageDetector(lname, kwargs, e, os, xc, cpb) ==
    CASE lname = "boost" -> Plain(BoostDependency(kwargs, e, os, xc), cpb)
      [] lname = "appleframeworks" -> Plain(AppleFrameworks(kwargs, os), cpb)
      [] lname = "threads" -> Plain(ThreadDependency(kwargs), cpb)
      [] OTHER -> Python3Dependency(kwargs, e, os, xc, cpb)

\* RequiredButMissing with the test of found() left out
RequiredButMissing_Never(required, found) == FALSE

(* `if required and not dep.found()`: the lookup must end in an exception *)
RequiredButMissing(required, found) == Truthy(required) /\ ~found

\* raise x out of find_external_dependency, after the constructions in c
RaiseFrom(c, x) == [c EXCEPT !.exc = x, !.dep = NoDep]

\* ReraiseOrReturn without `raise pkg_exc`: pkgdep, still None, is returned
ReraiseOrReturn_NoRaise(p) == [p EXCEPT !.exc = NoExc]

(* The end of find_external_dependency off OSX: the probe's exception is
   raised again if there was one, else the not-found record is returned. *)
ReraiseOrReturn(p) ==
    IF Raised(p.exc) THEN RaiseFrom(p, p.exc) ELSE [p EXCEPT !.exc = NoExc]

(* find_external_dependency on OSX after the probe (c: its outcome so far):
   fw is the ExtraFrameworkDependency that was constructed. *)
FrameworkFallback(required, c, fw) ==
    IF Raised(fw.exc) THEN RaiseFrom([c EXCEPT !.trace = c.trace \o fw.trace], fw.exc)
    ELSE IF RequiredButMissing(required, fw.dep.found)
    THEN RaiseFrom([c EXCEPT !.trace = c.trace \o fw.trace],
                   [Exc("DependencyException",
                        "not found, tried Extra Frameworks and Pkg-Config")
                      EXCEPT !.cites = IF Raised(c.pkg.exc) THEN c.pkg.exc.msg ELSE "None"])
    ELSE [c EXCEPT !.trace = c.trace \o fw.trace, !.exc = NoExc, !.dep = fw.dep]

\* AfterProbe without `if pkgdep.found(): return pkgdep`
AfterProbe_NoReturn(name, required, kwargs, e, os, p) ==
    IF os = "osx"
    THEN FrameworkFallback(required, p, ExtraFrameworkDependency(name, kwargs, e))
    ELSE ReraiseOrReturn(p)

(* find_external_dependency after the try block around the probe p. *)
AfterProbe(name, required, kwargs, e, os, p) ==
    IF ~Raised(p.exc) /\ p.dep.found THEN p
    ELSE IF os = "osx"
    THEN FrameworkFallback(required, p, ExtraFrameworkDependency(name, kwargs, e))
    ELSE ReraiseOrReturn(p)

\* the probe's outcome, recorded as the probe of this lookup
WithPkg(p) == [p EXCEPT !.pkg = PkgOf(p)]

(* find_external_dependency for a name that is not in packages: the probe,
   then on OSX the framework detector. *)
ProbeThenFramework(name, required, kwargs, e, os, xc, cpb) ==
    AfterProbe(name, required, kwargs, e, os,
               WithPkg(PkgConfigDependency(name, kwargs, e, xc, cpb)))

(* `dep = packages[lname](environment, kwargs)` and the test that follows:
   c is what the constructor left. *)
CheckRequired(required, c) ==
    IF ~Raised(c.exc) /\ RequiredButMissing(required, c.dep.found)
    THEN RaiseFrom(c, Exc("DependencyException", "Dependency not found"))
    ELSE c

(* find_external_dependency(name, environment, kwargs): the record it
   returns (exc is NoExc) or the exception that leaves it. *)
FindExternalDependency(name, kwargs, e, os, xc, cpb) ==
    LET required == KwGet(kwargs.required, "True") IN
    IF ~IsBool(required)
    THEN Failed(Exc("DependencyException", "Keyword required must be a boolean."),
                cpb, 0, PyNone, <<>>)
    ELSE IF ~IsStr(KwGet(kwargs.method, ""))
    THEN Failed(Exc("DependencyException", "Keyword method must be a string."),
                cpb, 0, PyNone, <<>>)
    ELSE IF Lower(name) \in Packages
    THEN CheckRequired(required, PackageDetector(Lower(name), kwargs, e, os, xc, cpb))
    ELSE ProbeThenFramework(name, required, kwargs, e, os, xc, cpb)

----------------------------------------------------------------------------
(* The lookups a process makes: names, kwargs and what the outside world
   answers while a lookup runs. *)

Platforms == {"linux", "osx", "windows"}

\* not cross-compiling; cross file without / with a pkgconfig binary
CrossConfigs == {"no", "nobin", "bin"}

Names == {"foo", "threads", "Threads", "boost", "appleframeworks", "python3"}

GE20 == Req(">=", <<2, 0>>)
GE30 == Req(">=", <<3, 0>>)
EQ21 == Req("", <<2, 1>>)

NoVersion == [t |-> Absent, reqs |-> <<>>]
VersionValues ==
    {NoVersion,
     [t |-> "str", reqs |-> <<GE20>>],
     [t |-> "list", reqs |-> <<GE20, GE30>>],
     [t |-> "list", reqs |-> <<EQ21>>],
     [t |-> "<int>", reqs |-> <<>>]}

NoModules == [t |-> Absent, mods |-> <<>>]
ModulesValues ==
    {NoModules,
     [t |-> "str", mods |-> <<"thread">>],
     [t |-> "list", mods |-> <<>>],
     [t |-> "list", mods |-> <<"thread", "nonexistent">>],
     [t |-> "list", mods |-> <<"<int>">>]}

\* number of keys in a kwargs dict
NumKeys(k) ==
      (IF k.required = Absent THEN 0 ELSE 1) + (IF k.method = Absent THEN 0 ELSE 1)
    + (IF k.static = Absent THEN 0 ELSE 1) + (IF k.native = Absent THEN 0 ELSE 1)
    + (IF k.version.t = Absent THEN 0 ELSE 1) + (IF k.modules.t = Absent THEN 0 ELSE 1)

Kwargs ==
    {k \in [required : {Absent, "True", "False", "yes"},
            method : {Absent, "auto", "pkg-config", "extraframework", "sysconfig",
                      "bogus", "<int>"},
            static : {Absent, "True", "yes"},
            native : {Absent, "True", "False"},
            version : VersionValues,
            modules : ModulesValues] : NumKeys(k) <= MaxKw}

\* what `pkg-config --modversion` prints: nothing, or 2.1.0
ToolVersions == {VerStr("", <<>>), VerStr("", <<2, 1, 0>>)}

DefaultEnv ==
    [PKG_CONFIG |-> Absent, tool_runs |-> FALSE, which_finds |-> FALSE,
     mv |-> "fail", mv_out |-> VerStr("", <<>>), cflags |-> "ok", libs |-> "ok",
     fw |-> "absent", arch |-> "match",
     boost_root |-> Absent, boost_incvar |-> FALSE, boost_hdr |-> "missing",
     boost_src |-> {}, boost_lib |-> {}, boost_find |-> FALSE, cpp |-> TRUE]

\* the keys of kwargs that the constructors reached from a name read; the
\* thread and framework-list detectors are given every key
KeysRead(name) ==
    CASE Lower(name) = "boost" -> {"required", "method", "native", "modules"}
      [] Lower(name) \in {"foo", "python3"} ->
            {"required", "method", "static", "native", "version"}
      [] OTHER -> {"required", "method", "static", "native", "version", "modules"}

KwargsFor(name) ==
    {k \in Kwargs :
        /\ "static" \notin KeysRead(name) => k.static = Absent
        /\ "version" \notin KeysRead(name) => k.version = NoVersion
        /\ "modules" \notin KeysRead(name) => k.modules = NoModules}

\* PKG_CONFIG, whether `<tool> --version` runs, whether shutil.which finds the
\* name: no tool; pkg-config on PATH; PKG_CONFIG naming a tool that runs
ToolEnvs ==
    {[DefaultEnv EXCEPT !.PKG_CONFIG = t[1], !.tool_runs = t[2], !.which_finds = t[3]] :
        t \in {<<Absent, FALSE, FALSE>>, <<Absent, TRUE, TRUE>>,
               <<"/opt/bin/pkg-config", TRUE, FALSE>>}}

\* how the queries of a probe end: --modversion fails; it prints a version
\* and the flag queries succeed; or one of the flag queries fails
RunEnvs(e0) ==
    {e0}
    \cup {[e0 EXCEPT !.mv = "ok", !.mv_out = v] : v \in ToolVersions}
    \cup {[e0 EXCEPT !.mv = "ok", !.mv_out = VerStr("", <<2, 1, 0>>), !.cflags = "fail"]}
    \cup {[e0 EXCEPT !.mv = "ok", !.mv_out = VerStr("", <<2, 1, 0>>), !.libs = l] :
             l \in {"fail", "la", "la_unresolved"}}

\* what the fallback after a probe meets: only on OSX is the framework
\* directory read, only the runtime detector on Windows compares architectures
FallbackEnvs(e0, name, os) ==
    {[e0 EXCEPT !.fw = f, !.arch = a] :
        f \in (IF os = "osx" THEN {"absent", "present"} ELSE {"absent"}),
        a \in (IF os = "windows" /\ Lower(name) = "python3"
               THEN {"unknown", "mismatch", "match"} ELSE {"match"})}

ProbeEnvs(name, os) ==
    UNION {UNION {FallbackEnvs(r, name, os) : r \in RunEnvs(t)} : t \in ToolEnvs}

\* BOOST_ROOT and BOOST_INCLUDEDIR
BoostRoots == {<<Absent, FALSE>>, <<Absent, TRUE>>, <<"/opt/boost", FALSE>>}

\* the compiled libraries, and whether the compiler's find_library finds them
BoostLibs == {<<{}, FALSE>>, <<{"thread"}, FALSE>>, <<{"thread-mt"}, FALSE>>,
              <<{"thread"}, TRUE>>}

\* BOOST_ROOT, BOOST_INCLUDEDIR, version.hpp, the module directories and
\* libraries, the compiler's find_library, the C++ compiler
BoostEnvs ==
    {[DefaultEnv EXCEPT !.boost_root = "boost"]}
    \cup {[DefaultEnv EXCEPT !.boost_root = r[1], !.boost_incvar = r[2], !.cpp = c,
                             !.boost_find = f, !.boost_hdr = h]  :
             r \in BoostRoots, c \in BOOLEAN, f \in BOOLEAN, h \in {"missing", "nodefine"}}
    \cup {[DefaultEnv EXCEPT !.boost_root = r[1], !.boost_incvar = r[2], !.cpp = c,
                             !.boost_hdr = "1_63", !.boost_src = sm,
                             !.boost_lib = l[1], !.boost_find = l[2]]  :
             r \in BoostRoots, c \in BOOLEAN, sm \in {{}, {"thread"}}, l \in BoostLibs}
    \cup {[DefaultEnv EXCEPT !.boost_root = r[1], !.boost_incvar = r[2],
                             !.boost_hdr = "empty", !.boost_src = {"thread"}]  :
             r \in BoostRoots}

\* the answers a lookup of this name can meet
Envs(name, os) ==
    CASE Lower(name) \in {"threads", "appleframeworks"} -> {DefaultEnv}
      [] Lower(name) = "boost" -> BoostEnvs
      [] OTHER -> ProbeEnvs(name, os)

----------------------------------------------------------------------------
(* get_dep_identifier.  A Python value is a record: t is its type, s the
   text of a str, int or bool, l the elements of a list, set the elements
   of a frozenset.  kwargs is a dict: a sequence of <<key, value>> in
   insertion order, every key once. *)

PyStr(x) == [t |-> "str", s |-> x, l |-> <<>>, set |-> {}]
PyBool(b) == [t |-> "bool", s |-> IF b THEN "True" ELSE "False", l |-> <<>>, set |-> {}]
PyList(xs) == [t |-> "list", s |-> "", l |-> xs, set |-> {}]
PyTuple(xs) == [t |-> "tuple", s |-> "", l |-> xs, set |-> {}]
PyFrozenset(S) == [t |-> "frozenset", s |-> "", l |-> <<>>, set |-> S]

RECURSIVE FlattenList(_)
\* the loop of mesonlib.flatten over the elements of a list
FlattenList(xs) ==
    IF xs = <<>> THEN <<>>
    ELSE (IF Head(xs).t = "list" THEN FlattenList(Head(xs).l) ELSE <<Head(xs)>>)
         \o FlattenList(Tail(xs))

\* mesonlib.flatten: what is not a list is returned as it is, a list is
\* returned with the elements of nested lists in place of those lists
flatten(item) == IF item.t = "list" THEN PyList(FlattenList(item.l)) ELSE item

\* frozenset(list)
frozenset(v) == PyFrozenset({v.l[i] : i \in 1..Len(v.l)})

\* kwargs.get(key, default)
DictGet(kwargs, key, default) ==
    IF \E i \in 1..Len(kwargs) : kwargs[i][1] = key
    THEN kwargs[CHOOSE i \in 1..Len(kwargs) : kwargs[i][1] = key][2]
    ELSE default

\* the keys that get_dep_identifier leaves out of the identifier
SkippedKeys == {"version", "native", "required", "fallback"}

\* get_dep_identifier that leaves 'required' in the identifier
get_dep_identifier_KeepsRequired(name, kwargs, want_cross) ==
    LET v == flatten(DictGet(kwargs, "version", PyList(<<>>)))
        version_reqs == IF v.t = "list" THEN frozenset(v) ELSE v
        kept == SelectSeq(kwargs, LAMBDA kv : kv[1] \notin {"version", "native", "fallback"})
        value(x) == IF x.t = "list" THEN frozenset(flatten(x)) ELSE x
    IN <<PyStr(name), version_reqs, PyBool(want_cross)>>
       \o [i \in 1..(2 * Len(kept)) |->
             IF i % 2 = 1 THEN PyStr(kept[(i + 1) \div 2][1])
             ELSE value(kept[i \div 2][2])]

\* get_dep_identifier with tuple(...) in place of frozenset(...)
get_dep_identifier_Tuple(name, kwargs, want_cross) ==
    LET v == flatten(DictGet(kwargs, "version", PyList(<<>>)))
        version_reqs == IF v.t = "list" THEN PyTuple(v.l) ELSE v
        kept == SelectSeq(kwargs, LAMBDA kv : kv[1] \notin SkippedKeys)
        value(x) == IF x.t = "list" THEN PyTuple(flatten(x).l) ELSE x
    IN <<PyStr(name), version_reqs, PyBool(want_cross)>>
       \o [i \in 1..(2 * Len(kept)) |->
             IF i % 2 = 1 THEN PyStr(kept[(i + 1) \div 2][1])
             ELSE value(kept[i \div 2][2])]

(* get_dep_identifier(name, kwargs, want_cross): the tuple (name,
   version_reqs, want_cross, key, value, key, value, ...). *)
get_dep_identifier(name, kwargs, want_cross) ==
    LET v == flatten(DictGet(kwargs, "version", PyList(<<>>)))
        version_reqs == IF v.t = "list" THEN frozenset(v) ELSE v
        kept == SelectSeq(kwargs, LAMBDA kv : kv[1] \notin SkippedKeys)
        value(x) == IF x.t = "list" THEN frozenset(flatten(x)) ELSE x
    IN <<PyStr(name), version_reqs, PyBool(want_cross)>>
       \o [i \in 1..(2 * Len(kept)) |->
             IF i % 2 = 1 THEN PyStr(kept[(i + 1) \div 2][1])
             ELSE value(kept[i \div 2][2])]

\* the values an option of a call holds at first
OptionValues(key) ==
    CASE key = "version" ->
            {PyStr(">=1"), PyList(<<PyStr(">=1"), PyStr("<3")>>),
             PyList(<<PyList(<<PyStr(">=1"), PyStr("!=2")>>), PyStr("<3")>>)}
      [] key = "modules" ->
            {PyStr("a"), PyList(<<PyStr("a"), PyStr("b")>>),
             PyList(<<PyStr("a"), PyList(<<PyStr("b"), PyStr("c")>>)>>)}
      [] key = "static" -> {PyBool(TRUE)}
      [] key = "required" -> {PyBool(FALSE)}

OptionKeys == {"version", "modules", "static", "required"}

\* the dicts of at most MaxOpts options
IdentKwargs ==
    UNION {{kw \in [1..n -> {<<k, v>> : k \in OptionKeys,
                                        v \in UNION {OptionValues(x) : x \in OptionKeys}}] :
              /\ \A i \in 1..n : kw[i][2] \in OptionValues(kw[i][1])
              /\ \A i, j \in 1..n : i # j => kw[i][1] # kw[j][1]} : n \in 0..MaxOpts}

NoArgs == [name |-> "", kwargs |-> <<>>, want_cross |-> FALSE]
NoKey == <<>>

\* xs with the elements at j and j+1 exchanged
Exchange(xs, j) ==
    [i \in 1..Len(xs) |-> IF i = j THEN xs[j + 1] ELSE IF i = j + 1 THEN xs[j] ELSE xs[i]]

\* the arguments with the list of option i replaced by xs
WithList(args, i, xs) ==
    [args EXCEPT !.kwargs[i] = <<args.kwargs[i][1], PyList(xs)>>]

----------------------------------------------------------------------------
(* class ExternalProgram.  A str is the sequence of its words and of the
   characters " ", "#", "!", "/" and "." that stand between them: the path
   /tmp/foo.py is <<"/", "tmp", "/", "foo", ".", "py">>.  A command is a
   sequence of such strs; the element None is NoneStr. *)

\* None where a str is expected
NoneStr == <<PyNone>>

\* sys.executable
SysExecutable == <<"<sys.executable>">>

\* the value False that _search_dir and _shebang_to_cmd return: no list they
\* return is empty, and `if commands:` is all that reads it
NoCommand == <<>>

\* what readline() cannot deliver: open() or the decoding raised
Unreadable == <<"<unreadable>">>

\* ExternalProgram.windows_exts
windows_exts == <<"exe", "msc", "com", "bat">>

\* s.startswith(p)
StartsWith(s, p) == Len(s) >= Len(p) /\ SubSeq(s, 1, Len(p)) = p

RECURSIVE LStrip(_)
LStrip(s) == IF s # <<>> /\ Head(s) = " " THEN LStrip(Tail(s)) ELSE s

RECURSIVE RStrip(_)
RStrip(s) == IF s # <<>> /\ s[Len(s)] = " " THEN RStrip(SubSeq(s, 1, Len(s) - 1)) ELSE s

\* s.strip()
Strip(s) == RStrip(LStrip(s))

\* s.split(c)[0]
RECURSIVE SplitFirst(_, _)
SplitFirst(s, c) ==
    IF s = <<>> \/ Head(s) = c THEN <<>> ELSE <<Head(s)>> \o SplitFirst(Tail(s), c)

\* s.split(c)[-1]
RECURSIVE SplitLast(_, _)
SplitLast(s, c) ==
    IF s = <<>> \/ s[Len(s)] = c THEN <<>>
    ELSE SplitLast(SubSeq(s, 1, Len(s) - 1), c) \o <<s[Len(s)]>>

\* s.split() of a str without leading blanks (t is its first word)
RECURSIVE SplitWords(_)
SplitRest(s, t) == <<t>> \o SplitWords(SubSeq(s, Len(t) + 1, Len(s)))

\* s.split()
SplitWords(s) ==
    IF LStrip(s) = <<>> THEN <<>> ELSE SplitRest(LStrip(s), SplitFirst(LStrip(s), " "))

\* w.lower() of a word
LowerWord(w) == IF w = "EXE" THEN "exe" ELSE w

(* os.path.splitext(path)[-1].lower()[1:]: what follows the last dot of the
   last component, unless that dot begins the component *)
Suffix(path) ==
    LET base == SplitLast(path, "/")
        ext == SplitLast(base, ".")
    IN IF Len(ext) = 1 /\ Len(base) > 2 /\ base[Len(base) - 1] = "."
       THEN LowerWord(ext[1]) ELSE ""

\* os.path.join(dir, name)
PathJoin(dir, name) == IF Head(name) = "/" THEN name ELSE dir \o <<"/">> \o name

\* '{}.{}'.format(path, ext)
WithExt(path, ext) == path \o <<".", ext>>

\* os.path.isabs(name)
IsAbsPath(name) == name # <<>> /\ Head(name) = "/"

(* What the file system holds at a path: exists (os.path.exists), xok
   (os.access(path, os.X_OK)), isdir, and the first line of the file. *)
NoFile == [exists |-> FALSE, xok |-> FALSE, isdir |-> FALSE, line |-> Unreadable]

(* the Windows part of ExternalProgram._shebang_to_cmd *)
ShebangBasename(commands) ==
    IF StartsWith(commands[1], <<"/">>)
    THEN <<SplitLast(commands[1], "/")>> \o Tail(commands)
    ELSE commands

\* ShebangDropEnv without the rewriting of env
ShebangDropEnv_Keep(commands) == commands

ShebangDropEnv(commands) ==
    IF Len(commands) > 0 /\ commands[1] = <<"env">> THEN Tail(commands) ELSE commands

ShebangPython(commands) ==
    IF Len(commands) > 0 /\ commands[1] = <<"python3">>
    THEN <<SysExecutable>> \o Tail(commands)
    ELSE commands

\* _shebang_to_cmd from `commands = ...` on; commands[0] of an empty list
\* raises IndexError, which `except Exception: pass` turns into False
ShebangCommands(script, commands, os) ==
    IF os = "windows"
    THEN IF commands = <<>> THEN NoCommand
         ELSE ShebangPython(ShebangDropEnv(ShebangBasename(commands))) \o <<script>>
    ELSE commands \o <<script>>

\* _shebang_to_cmd once first_line is read and stripped
ShebangOfLine(script, first_line, os) ==
    IF StartsWith(first_line, <<"#", "!">>)
    THEN ShebangCommands(script,
             SplitWords(Strip(SplitFirst(SubSeq(first_line, 3, Len(first_line)), "#"))), os)
    ELSE NoCommand

(* ExternalProgram._shebang_to_cmd(script): file is what is at that path *)
ShebangToCmd(script, file, os) ==
    IF file.isdir \/ file.line = Unreadable THEN NoCommand
    ELSE ShebangOfLine(script, Strip(file.line), os)

(* ExternalProgram._is_executable(path) *)
IsExecutable(path, file, os) ==
    IF os = "windows" THEN Suffix(path) \in SeqToSet(windows_exts)
    ELSE IF file.xok THEN ~file.isdir
    ELSE FALSE

\* the first of windows_exts, from position i on, with which a file exists
RECURSIVE FirstExt(_, _)
FirstExt(exts, i) ==
    IF i > Len(windows_exts) THEN ""
    ELSE IF windows_exts[i] \in exts THEN windows_exts[i]
    ELSE FirstExt(exts, i + 1)

(* ExternalProgram._search_dir(name, search_dir): d is what the directory
   holds for the name, the file at search_dir/name and the extensions ext
   with which search_dir/name.ext exists. *)
SearchDir(name, search_dir, d, os) ==
    IF search_dir = NoneStr THEN NoCommand
    ELSE IF d.file.exists
    THEN IF IsExecutable(PathJoin(search_dir, name), d.file, os)
         THEN <<PathJoin(search_dir, name)>>
         ELSE ShebangToCmd(PathJoin(search_dir, name), d.file, os)
    ELSE IF os = "windows" /\ FirstExt(d.exts, 1) # ""
    THEN <<WithExt(PathJoin(search_dir, name), FirstExt(d.exts, 1))>>
    ELSE NoCommand

\* the loop over os.environ['PATH'].split(';') at the end of _search
RECURSIVE SearchPathDirs(_, _, _)
SearchPathDirs(name, dirs, os) ==
    IF dirs = <<>> THEN <<NoneStr>>
    ELSE IF SearchDir(name, Head(dirs).dir, Head(dirs), os) # NoCommand
    THEN SearchDir(name, Head(dirs).dir, Head(dirs), os)
    ELSE SearchPathDirs(name, Tail(dirs), os)

(* ExternalProgram._search on Windows after shutil.which(name) returned
   command *)
SearchWindows(name, fs, os) ==
    IF fs.which # NoneStr
    THEN IF Suffix(fs.which) \in SeqToSet(windows_exts) THEN <<fs.which>>
         ELSE IF ShebangToCmd(fs.which, fs.which_file, os) # NoCommand
         THEN ShebangToCmd(fs.which, fs.which_file, os)
         ELSE <<NoneStr>>
    ELSE IF IsAbsPath(name) /\ FirstExt(fs.abs_exts, 1) # ""
    THEN <<WithExt(name, FirstExt(fs.abs_exts, 1))>>
    ELSE SearchPathDirs(name, fs.path_dirs, os)

(* ExternalProgram._search(name, search_dir).  fs is the file system: local
   (what search_dir holds), which (the result of shutil.which(name)),
   which_file (the file at that path), abs_exts (the extensions with which
   name.ext exists) and path_dirs (what the directories of PATH hold). *)
Search(name, search_dir, fs, os) ==
    IF SearchDir(name, search_dir, fs.local, os) # NoCommand
    THEN SearchDir(name, search_dir, fs.local, os)
    ELSE IF os # "windows" THEN <<fs.which>>
    ELSE SearchWindows(name, fs, os)

\* the command argument of ExternalProgram: None, a str or a list of strs
NoOverride == [t |-> PyNone, s |-> <<>>, l |-> <<>>]
StrOverride(s) == [t |-> "str", s |-> s, l |-> <<>>]
ListOverride(l) == [t |-> "list", s |-> <<>>, l |-> l]

\* self.command after ExternalProgram.__init__ with a command
OverrideCommand(command) ==
    IF command.t # "list" THEN <<command.s>> ELSE command.l

(* ExternalProgram.found(): self.command[0] is not None; an empty command
   has no first element. *)
ProgramFound(command) ==
    IF command = <<>> THEN "IndexError"
    ELSE IF command[1] # NoneStr THEN "True" ELSE "False"

(* ExternalProgram.__init__(name, command, silent, search_dir): the object
   it builds, searched telling whether _search was called, or the exception
   of the found() that the log line calls. *)
ProgramBuilt(name, silent, cmd, searched) ==
    [command |-> cmd, searched |-> searched, name |-> name,
     exc |-> IF ~silent /\ ProgramFound(cmd) = "IndexError" THEN "IndexError" ELSE ""]

ExternalProgram(name, command, silent, search_dir, fs, os) ==
    IF command.t # PyNone
    THEN ProgramBuilt(name, silent, OverrideCommand(command), FALSE)
    ELSE ProgramBuilt(name, silent, Search(name, search_dir, fs, os), TRUE)

\* ExternalProgram.get_command(): a copy of self.command
GetCommand(p) == p.command

----------------------------------------------------------------------------
(* What a construction of ExternalProgram can be given and can meet *)

ProgramNames == {<<"foo">>, <<"foo", ".", "py">>, <<"/", "opt", "/", "foo">>}

Overrides ==
    {NoOverride, StrOverride(<<"foo">>), StrOverride(<<>>),
     ListOverride(<< <<"foo">>, <<"-v">> >>), ListOverride(<< <<>> >>), ListOverride(<<>>)}

SearchDirs == {NoneStr, <<"/", "src">>}

\* first lines of files
EnvBash == <<"#", "!", "/", "usr", "/", "bin", "/", "env", " ", "bash">>
EnvPython3 == <<"#", "!", "/", "usr", "/", "bin", "/", "env", " ", "python3", " ">>
EnvBashNote == EnvBash \o <<" ", "#", " ", "note">>
EnvBashFlag == <<"#", "!", " ", "/", "usr", "/", "bin", "/", "env", " ", "bash", " ", "-e">>
RelEnvBash == <<"#", "!", "bin", "/", "env", " ", "bash">>
BinSh == <<"#", "!", "/", "bin", "/", "sh", " ">>
BareMarker == <<"#", "!">>
NoShebang == <<"echo", " ", "hi">>

FirstLines ==
    {EnvBash, EnvPython3, EnvBashNote, EnvBashFlag, RelEnvBash, BinSh, BareMarker,
     NoShebang, Unreadable}

Script(xok, line) == [exists |-> TRUE, xok |-> xok, isdir |-> FALSE, line |-> line]
Directory == [exists |-> TRUE, xok |-> TRUE, isdir |-> TRUE, line |-> Unreadable]

Files ==
    {NoFile, Directory, Script(TRUE, Unreadable), Script(TRUE, EnvBash)}
    \cup {Script(FALSE, line) : line \in FirstLines}

\* what a directory holds for a name
Holds(dir, file, exts) == [dir |-> dir, file |-> file, exts |-> exts]

LocalFacts(dir) ==
    {Holds(dir, f, {}) : f \in Files}
    \cup {Holds(dir, NoFile, x) : x \in {{"bat"}, {"com", "exe"}}}

UsrBin == <<"/", "usr", "/", "bin">>

\* shutil.which(name) and the file it names
WhichFacts(name) ==
    {<<NoneStr, NoFile>>,
     <<PathJoin(UsrBin, name), Script(TRUE, EnvBash)>>,
     <<PathJoin(UsrBin, name), Script(TRUE, NoShebang)>>,
     <<WithExt(PathJoin(UsrBin, name), "EXE"), Script(TRUE, Unreadable)>>}

\* the directories of PATH and what they hold for the name
PathFacts ==
    {<<>>,
     <<Holds(<<"/", "a">>, NoFile, {}), Holds(<<"/", "b">>, Script(FALSE, EnvBash), {})>>,
     <<Holds(<<"/", "a">>, NoFile, {"bat"})>>}

NoFs == [local |-> Holds(NoneStr, NoFile, {}), which |-> NoneStr, which_file |-> NoFile,
         abs_exts |-> {}, path_dirs |-> <<>>]

FileSystems(name, search_dir) ==
    {[local |-> l, which |-> w[1], which_file |-> w[2], abs_exts |-> a, path_dirs |-> p] :
        l \in (IF search_dir = NoneStr THEN {Holds(NoneStr, NoFile, {})}
               ELSE LocalFacts(search_dir)), w \in WhichFacts(name), a \in {{}, {"exe"}},
        p \in PathFacts}

NoProgramArgs ==
    [name |-> <<>>, command |-> NoOverride, silent |-> FALSE, search_dir |-> NoneStr,
     fs |-> NoFs]

NoProgram == [command |-> <<>>, searched |-> FALSE, name |-> <<>>, exc |-> ""]

----------------------------------------------------------------------------
(* The process *)

NoCall == [name |-> "", kwargs |-> [required |-> Absent, method |-> Absent,
                                     static |-> Absent, native |-> Absent,
                                     version |-> NoVersion, modules |-> NoModules],
           env |-> DefaultEnv]

NoOutcome == Failed(NoExc, PyNone, 0, PyNone, <<>>)

Init ==
    /\ platform \in Platforms
    /\ cross \in CrossConfigs
    /\ class_pkgbin = PyNone
    /\ writes = 0
    /\ native_first = PyNone
    /\ pc = "idle"
    /\ call = NoCall
    /\ outcome = NoOutcome
    /\ id_a = NoArgs /\ id_b = NoArgs /\ id_ka = NoKey /\ id_kb = NoKey
    /\ id_pc = "off"
    /\ ep_in = NoProgramArgs /\ ep = NoProgram /\ ep_pc = "new"

(* One call of find_external_dependency, run to its end. *)
Lookup ==
    /\ pc = "idle"
    /\ \E name \in Names : \E kwargs \in KwargsFor(name) :
         \E e \in Envs(name, platform) :
            \E r \in {FindExternalDependency(name, kwargs, e, platform, cross, class_pkgbin)} :
               /\ call' = [name |-> name, kwargs |-> kwargs, env |-> e]
               /\ outcome' = r
               /\ class_pkgbin' = r.cpb
               /\ writes' = Min(writes + r.w, MaxWrites)
               /\ native_first' = IF native_first = PyNone /\ Truthy(r.nres)
                                  THEN r.nres ELSE native_first
    /\ pc' = "returned"
    /\ UNCHANGED <<platform, cross>>
    /\ UNCHANGED id_vars
    /\ UNCHANGED ep_vars

(* The caller takes the record or the exception; the next lookup may start. *)
Continue ==
    /\ pc = "returned"
    /\ pc' = "idle"
    /\ call' = NoCall
    /\ outcome' = NoOutcome
    /\ UNCHANGED <<platform, cross, class_pkgbin, writes, native_first>>
    /\ UNCHANGED id_vars
    /\ UNCHANGED ep_vars

Next == Lookup \/ Continue

Spec == Init /\ [][Next]_vars

----------------------------------------------------------------------------
(* Two calls of get_dep_identifier: the second call's arguments start as
   those of the first and are changed in the order and the repetition of the
   elements of their list-valued options before both are identified. *)

IdentInit ==
    /\ platform = "linux" /\ cross = "no"
    /\ class_pkgbin = PyNone /\ writes = 0 /\ native_first = PyNone
    /\ pc = "idle" /\ call = NoCall /\ outcome = NoOutcome
    /\ id_a \in [name : {"foo"}, kwargs : IdentKwargs, want_cross : BOOLEAN]
    /\ id_b = id_a
    /\ id_ka = NoKey /\ id_kb = NoKey
    /\ id_pc = "args"
    /\ ep_in = NoProgramArgs /\ ep = NoProgram /\ ep_pc = "new"

\* two neighbouring elements of a list-valued option change places
SwapElements ==
    /\ id_pc = "args"
    /\ \E i \in 1..Len(id_b.kwargs) :
         LET x == id_b.kwargs[i][2] IN
         /\ x.t = "list"
         /\ \E j \in 1..(Len(x.l) - 1) : id_b' = WithList(id_b, i, Exchange(x.l, j))
    /\ UNCHANGED <<id_a, id_ka, id_kb, id_pc>>
    /\ UNCHANGED lookup_vars
    /\ UNCHANGED ep_vars

\* two neighbouring elements of a list nested in a list-valued option change places
SwapNested ==
    /\ id_pc = "args"
    /\ \E i \in 1..Len(id_b.kwargs) :
         LET x == id_b.kwargs[i][2] IN
         /\ x.t = "list"
         /\ \E j \in 1..Len(x.l) :
              /\ x.l[j].t = "list"
              /\ \E k \in 1..(Len(x.l[j].l) - 1) :
                   id_b' = WithList(id_b, i,
                                    [x.l EXCEPT ![j] = PyList(Exchange(x.l[j].l, k))])
    /\ UNCHANGED <<id_a, id_ka, id_kb, id_pc>>
    /\ UNCHANGED lookup_vars
    /\ UNCHANGED ep_vars

\* an element of a list-valued option is given once more
RepeatElement ==
    /\ id_pc = "args"
    /\ \E i \in 1..Len(id_b.kwargs) :
         LET x == id_b.kwargs[i][2] IN
         /\ x.t = "list"
         /\ Len(x.l) < MaxListLen
         /\ \E j \in 1..Len(x.l) : id_b' = WithList(id_b, i, Append(x.l, x.l[j]))
    /\ UNCHANGED <<id_a, id_ka, id_kb, id_pc>>
    /\ UNCHANGED lookup_vars
    /\ UNCHANGED ep_vars

\* both calls are made
Identify ==
    /\ id_pc = "args"
    /\ id_ka' = get_dep_identifier(id_a.name, id_a.kwargs, id_a.want_cross)
    /\ id_kb' = get_dep_identifier(id_b.name, id_b.kwargs, id_b.want_cross)
    /\ id_pc' = "keyed"
    /\ UNCHANGED <<id_a, id_b>>
    /\ UNCHANGED lookup_vars
    /\ UNCHANGED ep_vars

\* two neighbouring options of the second call's kwargs change places
SwapOptions ==
    /\ id_pc = "args"
    /\ \E i \in 1..(Len(id_b.kwargs) - 1) :
         id_b' = [id_b EXCEPT !.kwargs = Exchange(id_b.kwargs, i)]
    /\ UNCHANGED <<id_a, id_ka, id_kb, id_pc>>
    /\ UNCHANGED lookup_vars
    /\ UNCHANGED ep_vars

\* a version requirement given as a string is given as a one-element list
WrapVersion ==
    /\ id_pc = "args"
    /\ \E i \in 1..Len(id_b.kwargs) :
         /\ id_b.kwargs[i][1] = "version"
         /\ id_b.kwargs[i][2].t = "str"
         /\ id_b' = WithList(id_b, i, <<id_b.kwargs[i][2]>>)
    /\ UNCHANGED <<id_a, id_ka, id_kb, id_pc>>
    /\ UNCHANGED lookup_vars
    /\ UNCHANGED ep_vars

\* the options the spec calls lifecycle options, and values they are given
Lifecycle == {"required", "native", "fallback"}
LifecycleValue(key) == IF key = "fallback" THEN PyStr("sub") ELSE PyBool(TRUE)

\* kwargs[key] = v: an existing key keeps its place, a new one comes last
DictSet(kwargs, key, v) ==
    IF \E i \in 1..Len(kwargs) : kwargs[i][1] = key
    THEN [i \in 1..Len(kwargs) |-> IF kwargs[i][1] = key THEN <<key, v>> ELSE kwargs[i]]
    ELSE Append(kwargs, <<key, v>>)

\* the options of a call that are not lifecycle options, in their order
OtherOptions(args) == SelectSeq(args.kwargs, LAMBDA kv : kv[1] \notin Lifecycle)

\* a list with its elements in reverse order; another value as it is
Reversed(v) ==
    IF v.t = "list" THEN PyList([i \in 1..Len(v.l) |-> v.l[Len(v.l) + 1 - i]]) ELSE v

\* the second call is given a lifecycle option, or another value for it
SetLifecycle ==
    /\ id_pc = "args"
    /\ \E key \in Lifecycle :
         /\ DictGet(id_b.kwargs, key, PyStr("")) # LifecycleValue(key)
         /\ id_b' = [id_b EXCEPT !.kwargs = DictSet(id_b.kwargs, key, LifecycleValue(key))]
    /\ UNCHANGED <<id_a, id_ka, id_kb, id_pc>>
    /\ UNCHANGED lookup_vars
    /\ UNCHANGED ep_vars

\* a lifecycle option is taken out of the second call's kwargs
DropLifecycle ==
    /\ id_pc = "args"
    /\ \E key \in Lifecycle :
         /\ \E i \in 1..Len(id_b.kwargs) : id_b.kwargs[i][1] = key
         /\ id_b' = [id_b EXCEPT !.kwargs = SelectSeq(id_b.kwargs, LAMBDA kv : kv[1] # key)]
    /\ UNCHANGED <<id_a, id_ka, id_kb, id_pc>>
    /\ UNCHANGED lookup_vars
    /\ UNCHANGED ep_vars

\* one other option of the second call is given another value
ChangeValue ==
    /\ id_pc = "args"
    /\ OtherOptions(id_b) = OtherOptions(id_a)
    /\ \E i \in 1..Len(id_b.kwargs) :
         LET key == id_b.kwargs[i][1] IN
         /\ key \notin Lifecycle
         /\ \E v \in OptionValues(key) \cup {Reversed(x) : x \in OptionValues(key)} :
              /\ v # id_b.kwargs[i][2]
              /\ id_b' = [id_b EXCEPT !.kwargs[i] = <<key, v>>]
    /\ UNCHANGED <<id_a, id_ka, id_kb, id_pc>>
    /\ UNCHANGED lookup_vars
    /\ UNCHANGED ep_vars

IdentNext == SwapElements \/ SwapNested \/ RepeatElement \/ Identify

SpecIdent == IdentInit /\ [][IdentNext]_vars

(* Two calls whose kwargs hold the same options, supplied in another order
   or with a single version requirement as a one-element list. *)
IdentOrderNext == SwapOptions \/ WrapVersion \/ Identify

SpecIdentOrder == IdentInit /\ [][IdentOrderNext]_vars

(* Two calls that differ in their lifecycle options or in the value of one
   other option. *)
IdentKeysNext == SetLifecycle \/ DropLifecycle \/ ChangeValue \/ Identify

SpecIdentKeys == IdentInit /\ [][IdentKeysNext]_vars

----------------------------------------------------------------------------
(* One construction of ExternalProgram *)

ProgramInit ==
    /\ platform \in Platforms /\ cross = "no"
    /\ class_pkgbin = PyNone /\ writes = 0 /\ native_first = PyNone
    /\ pc = "idle" /\ call = NoCall /\ outcome = NoOutcome
    /\ id_a = NoArgs /\ id_b = NoArgs /\ id_ka = NoKey /\ id_kb = NoKey
    /\ id_pc = "off"
    /\ ep_in = NoProgramArgs /\ ep = NoProgram /\ ep_pc = "new"

(* ExternalProgram(name, command, silent, search_dir), run to its end *)
Locate ==
    /\ ep_pc = "new"
    /\ \E name \in ProgramNames : \E command \in Overrides : \E silent \in BOOLEAN :
         \E search_dir \in SearchDirs :
            \E fs \in (IF command.t # PyNone THEN {NoFs}
                       ELSE FileSystems(name, search_dir)) :
               /\ ep_in' = [name |-> name, command |-> command, silent |-> silent,
                            search_dir |-> search_dir, fs |-> fs]
               /\ ep' = ExternalProgram(name, command, silent, search_dir, fs, platform)
    /\ ep_pc' = "built"
    /\ UNCHANGED lookup_vars
    /\ UNCHANGED id_vars

ProgramNext == Locate

SpecProgram == ProgramInit /\ [][ProgramNext]_vars

----------------------------------------------------------------------------
(* What the claims speak about, read off the lookup that has just ended *)

Returned == pc = "returned"
LookupRaised == Returned /\ Raised(outcome.exc)
ReturnedRecord == Returned /\ ~Raised(outcome.exc) /\ IsDep(outcome.dep)
ReturnedNone == Returned /\ ~Raised(outcome.exc) /\ ~IsDep(outcome.dep)

RequiredArg == KwGet(call.kwargs.required, "True")
MethodArg == KwGet(call.kwargs.method, "auto")
Registered == Lower(call.name) \in Packages

InTrace(ev) == \E i \in 1..Len(outcome.trace) : outcome.trace[i] = ev

\* the messages of the probe's configuration errors and tool malfunctions
ConfigOrMalfunction ==
    {"Static keyword must be boolean", "Unsupported detection method",
     "Version argument must be string or list.",
     "Could not generate cargs", "Could not generate libs",
     "could not compute the actual shared library path"}

\* the probe of this lookup ended in a configuration error or a malfunction
ProbeBroken ==
    /\ Returned /\ outcome.pkg.ran /\ Raised(outcome.pkg.exc)
    /\ outcome.pkg.exc.msg \in ConfigOrMalfunction

\* the probe of this lookup reported not-found without raising
ProbeAbsent ==
    Returned /\ outcome.pkg.ran /\ ~Raised(outcome.pkg.exc) /\ ~outcome.pkg.dep.found

----------------------------------------------------------------------------
(* C1: with required=True, or 'required' omitted, find_external_dependency
   returns a record whose found() is true or raises; it never returns None,
   and a not-found record is returned only with required=False. *)
C1_RequiredFoundOrRaises ==
    Returned =>
        /\ ~ReturnedNone
        /\ (ReturnedRecord /\ ~outcome.dep.found) => call.kwargs.required = "False"
        /\ (call.kwargs.required \in {Absent, "True"})
              => (Raised(outcome.exc) \/ outcome.dep.found)

\* a required lookup whose probe found nothing is answered by the framework
C1_Witness ==
    /\ ReturnedRecord /\ call.kwargs.required = Absent
    /\ outcome.dep.found /\ outcome.dep.class = "ExtraFrameworkDependency"

(* C2 as claimed: an optional lookup whose only problem is absence or a
   version mismatch (valid options, the probe reports not-found without
   raising; for the runtime detector a method it supports) does not raise,
   and the record it returns is not-found unless the framework fallback
   found the dependency. *)
C2_OptionalAbsenceNeverRaises ==
    (/\ Returned /\ call.kwargs.required = "False"
     /\ call.kwargs.static \in {Absent, "True"}
     /\ call.kwargs.version.t # "<int>"
     /\ \/ ~Registered /\ MethodArg \in {"auto", "pkg-config"} /\ ProbeAbsent
        \/ /\ call.name = "python3"
           /\ MethodArg \in {"auto"} \cup SeqToSet(Python3Methods(platform)))
    => /\ ReturnedRecord
       /\ outcome.dep.found =>
             outcome.dep.class \in {"ExtraFrameworkDependency", "Python3Dependency"}

(* C3 as claimed: a configuration error or tool malfunction of the probe
   always makes the lookup raise. *)
C3_BrokenAlwaysRaises == ProbeBroken => LookupRaised

(* C3 amended: off OSX, for a name without registered detector, a
   configuration error or tool malfunction of the probe leaves
   find_external_dependency as that same exception, whatever 'required' is;
   the runtime detector rejects a method of the closed set that it does not
   support with a MesonException. *)
C3_BrokenRaisesOffOSX ==
    /\ (ProbeBroken /\ ~Registered /\ platform # "osx")
          => (LookupRaised /\ outcome.exc = outcome.pkg.exc)
    /\ (/\ Returned /\ call.name = "python3" /\ IsBool(RequiredArg)
        /\ MethodArg \in DependencyMethods
        /\ MethodArg \notin {"auto"} \cup SeqToSet(Python3Methods(platform)))
          => (LookupRaised /\ outcome.exc.type = "MesonException")

\* an optional lookup off OSX whose --cflags query failed
C3_Witness ==
    /\ ProbeBroken /\ ~Registered /\ platform = "linux"
    /\ call.kwargs.required = "False"
    /\ outcome.pkg.exc.msg = "Could not generate cargs"
    /\ LookupRaised

(* C4 as claimed: every returned record with found() false gives empty
   lists from get_compile_args(), get_link_args() and get_sources(). *)
C4_NotFoundIsEmpty ==
    (ReturnedRecord /\ ~outcome.dep.found)
       => /\ outcome.dep.compile_args = Ret(<<>>)
          /\ outcome.dep.link_args = Ret(<<>>)
          /\ outcome.dep.sources = Ret(<<>>)

(* C5 as claimed: every returned record with found() true reports a
   non-empty version string from get_version(). *)
C5_FoundHasVersion ==
    (ReturnedRecord /\ outcome.dep.found)
       => /\ outcome.dep.version.word # PyNone
          /\ ~VerIsEmpty(outcome.dep.version)

(* C6 as claimed: class_pkgbin is assigned at most once in a process. *)
C6_PkgbinWrittenOnce == writes <= 1

(* C7 as claimed: a native probe works with the tool path of the first
   successful native resolution of the process, never with another one. *)
C7_NativeUsesNativePath ==
    (/\ Returned /\ outcome.pkg.ran /\ ~outcome.pkg.want_cross
     /\ Truthy(outcome.pkg.pkgbin))
    => outcome.pkg.pkgbin = native_first


(* C8: when version requirements are given and --modversion exited 0, the
   probe's record is found iff every requirement holds for the reported
   version; on a mismatch an optional probe gives a not-found record with
   empty compile and link flags, a required one raises a DependencyException
   carrying exactly the unmet requirements. *)
C8_VersionRequirements ==
    (/\ Returned /\ outcome.pkg.ran /\ InTrace("--modversion")
     /\ call.kwargs.version.t \in {"str", "list"})
    => LET p == outcome.pkg
           reqs == call.kwargs.version.reqs
           unmet == SelectSeq(reqs, LAMBDA r : ~ReqHolds(p.modversion.comps, r))
       IN /\ ~Raised(p.exc) => (p.dep.found <=> unmet = <<>>)
          /\ (unmet # <<>> /\ RequiredArg = "False")
                => /\ ~Raised(p.exc) /\ IsDep(p.dep) /\ ~p.dep.found
                   /\ p.dep.compile_args = Ret(<<>>) /\ p.dep.link_args = Ret(<<>>)
          /\ (unmet # <<>> /\ RequiredArg = "True")
                => /\ p.exc.type = "DependencyException"
                   /\ p.exc.msg = "Invalid version of dependency"
                   /\ p.exc.reqs = unmet

\* version 2.1.0 against ['>=2.0', '>=3.0'] in a required probe
C8_Witness ==
    /\ Returned /\ outcome.pkg.ran /\ InTrace("--modversion")
    /\ call.kwargs.version.reqs = <<GE20, GE30>>
    /\ outcome.pkg.modversion.comps = <<2, 1, 0>>
    /\ outcome.pkg.exc.reqs = <<GE30>>

\* get_methods() of the detector classes
MethodsOf(class) ==
    CASE class = "PkgConfigDependency" -> <<"pkg-config">>
      [] class = "Python3Dependency" -> Python3Methods(platform)
      [] OTHER -> <<"auto">>

\* a detector was constructed with a method other than 'auto' that the
\* first detector constructed does not support
UnsupportedMethodGiven ==
    /\ Returned /\ outcome.trace # <<>>
    /\ MethodArg # "auto"
    /\ MethodArg \notin SeqToSet(MethodsOf(outcome.trace[1]))

\* the lookup ended in the unsupported-method error of the detector
\* constructed last, listing 'auto' and that detector's methods
RejectedWithAllowedList ==
    /\ LookupRaised /\ outcome.exc.type = "MesonException"
    /\ outcome.exc.allowed = AllowedMethods(MethodsOf(outcome.trace[Len(outcome.trace)]))

\* the record's selected methods: all applicable ones for 'auto', else the one
SelectedAsRequested ==
    IF MethodArg = "auto"
    THEN outcome.dep.methods = MethodsOf(outcome.dep.class)
    ELSE outcome.dep.methods = <<MethodArg>>

(* C9 as claimed: every detector rejects an explicit method that it does not
   support with a MesonException listing the allowed ones, and selects all
   its methods for 'auto', the requested one otherwise. *)
C9_UnsupportedMethodRejected ==
    /\ UnsupportedMethodGiven => RejectedWithAllowedList
    /\ ReturnedRecord => SelectedAsRequested

(* C10: two calls of get_dep_identifier with the same name, the same cross
   flag and option maps that differ only in the order or the repetition of
   elements inside list-valued options return equal keys. *)
C10_ListOrderIrrelevant == id_pc = "keyed" => id_ka = id_kb

\* the version lists of the two calls differ, and so do the module lists
C10_Witness ==
    /\ id_pc = "keyed" /\ id_ka = id_kb
    /\ DictGet(id_a.kwargs, "version", PyStr("")).t = "list"
    /\ DictGet(id_a.kwargs, "version", PyStr("")) # DictGet(id_b.kwargs, "version", PyStr(""))
    /\ DictGet(id_a.kwargs, "modules", PyStr("")) # DictGet(id_b.kwargs, "modules", PyStr(""))

\* the version requirements of a call, as a set
VersionReqs(args) ==
    LET v == flatten(DictGet(args.kwargs, "version", PyList(<<>>)))
    IN IF v.t = "list" THEN {v.l[i] : i \in 1..Len(v.l)} ELSE {v}

\* what an option's value is when a list counts as the set of its elements
AsSet(v) == IF v.t = "list" THEN frozenset(flatten(v)) ELSE v

\* the (option, value) pairs of a call that are neither lifecycle options
\* nor the version, as a set
OptionPairs(args) ==
    {<<args.kwargs[i][1], AsSet(args.kwargs[i][2])>> :
        i \in {j \in 1..Len(args.kwargs) : args.kwargs[j][1] \notin Lifecycle \cup {"version"}}}

(* C11 as claimed: two calls with the same name, the same version
   requirements, the same cross flag and the same set of (option, value)
   pairs return equal keys, in whatever order the options were supplied and
   whether a single version requirement is a string or a one-element list. *)
C11_OptionsAsSet ==
    (/\ id_pc = "keyed"
     /\ id_a.name = id_b.name /\ id_a.want_cross = id_b.want_cross
     /\ VersionReqs(id_a) = VersionReqs(id_b)
     /\ OptionPairs(id_a) = OptionPairs(id_b))
    => id_ka = id_kb

\* the calls differ at most in their lifecycle options
LifecycleOnly == OtherOptions(id_a) = OtherOptions(id_b)

\* the calls have the same other options in the same order, and option i
\* has another value in the second call
ValueDiffers(i) ==
    /\ Len(OtherOptions(id_a)) = Len(OtherOptions(id_b))
    /\ \A j \in 1..Len(OtherOptions(id_a)) :
          OtherOptions(id_a)[j][1] = OtherOptions(id_b)[j][1]
    /\ i \in 1..Len(OtherOptions(id_a))
    /\ OtherOptions(id_a)[i][2] # OtherOptions(id_b)[i][2]

(* C12 as claimed: calls that differ only in 'required', 'native' and
   'fallback' return equal keys, and a difference in the value of any other
   option gives different keys. *)
C12_OnlyLifecycleIgnored ==
    id_pc = "keyed" =>
        /\ LifecycleOnly => id_ka = id_kb
        /\ (\E i \in 1..Len(OtherOptions(id_a)) : ValueDiffers(i)) => id_ka # id_kb

(* C12 amended: the difference in the other option's value must be more
   than one in the order, repetition or nesting of the elements of a list. *)
C12_LifecycleIgnoredSetsCompared ==
    id_pc = "keyed" =>
        /\ LifecycleOnly => id_ka = id_kb
        /\ (\E i \in 1..Len(OtherOptions(id_a)) :
               /\ ValueDiffers(i)
               /\ AsSet(OtherOptions(id_a)[i][2]) # AsSet(OtherOptions(id_b)[i][2]))
              => id_ka # id_kb

\* the second call has 'required' and 'fallback' where the first has not
C12_Witness ==
    /\ id_pc = "keyed" /\ LifecycleOnly /\ id_ka = id_kb
    /\ OtherOptions(id_a) # <<>>
    /\ DictGet(id_a.kwargs, "required", PyStr("")) # DictGet(id_b.kwargs, "required", PyStr(""))
    /\ DictGet(id_a.kwargs, "fallback", PyStr("")) # DictGet(id_b.kwargs, "fallback", PyStr(""))

\* how often a detector class was constructed in the lookup
Constructed(class) ==
    Cardinality({i \in 1..Len(outcome.trace) : outcome.trace[i] = class})

\* the class registered in packages under a name
DetectorClass(lname) ==
    CASE lname = "boost" -> "BoostDependency"
      [] lname = "appleframeworks" -> "AppleFrameworks"
      [] lname = "threads" -> "ThreadDependency"
      [] lname = "python3" -> "Python3Dependency"

\* the probe of the lookup reported found
ProbeFound == outcome.pkg.ran /\ ~Raised(outcome.pkg.exc) /\ outcome.pkg.dep.found

(* C13: in one call with well-typed 'required' and 'method', for a name
   that is not registered the probe is constructed first and exactly once; if
   it reports found its record is returned and no framework detector is
   constructed; the framework detector is constructed at most once, only on
   OSX, after a probe that raised or reported not-found.  For a registered
   name, in any case, the registered detector is what is constructed and
   returned; only the runtime detector runs a probe or a framework detector,
   of its own. *)
C13_ProbeFirstFrameworkLast ==
    (Returned /\ outcome.trace # <<>>) =>
        IF ~Registered
        THEN /\ outcome.trace[1] = "PkgConfigDependency"
             /\ Constructed("PkgConfigDependency") = 1
             /\ outcome.pkg.ran
             /\ ProbeFound => /\ ReturnedRecord /\ outcome.dep = outcome.pkg.dep
                              /\ Constructed("ExtraFrameworkDependency") = 0
             /\ Constructed("ExtraFrameworkDependency") <= 1
             /\ Constructed("ExtraFrameworkDependency") = 1
                   => /\ platform = "osx" /\ ~ProbeFound
                      /\ outcome.trace[Len(outcome.trace)] = "ExtraFrameworkDependency"
             /\ ReturnedRecord =>
                   outcome.dep.class \in {"PkgConfigDependency", "ExtraFrameworkDependency"}
        ELSE /\ outcome.trace[1] = DetectorClass(Lower(call.name))
             /\ Constructed(DetectorClass(Lower(call.name))) = 1
             /\ Lower(call.name) # "python3" => Len(outcome.trace) = 1 /\ ~outcome.pkg.ran
             /\ ReturnedRecord => outcome.dep.class = DetectorClass(Lower(call.name))

\* on OSX the probe found nothing and the framework detector answered
C13_Witness ==
    /\ Returned /\ ~Registered /\ platform = "osx"
    /\ outcome.pkg.ran /\ ~ProbeFound
    /\ Constructed("ExtraFrameworkDependency") = 1
    /\ ReturnedRecord /\ outcome.dep.class = "ExtraFrameworkDependency"

-----------------------------------------------------------------------------
\* the lookup ended in the DependencyException that names both attempts
TriedBoth ==
    /\ LookupRaised
    /\ outcome.exc.type = "DependencyException"
    /\ outcome.exc.msg = "not found, tried Extra Frameworks and Pkg-Config"
    /\ outcome.exc.cites = outcome.pkg.exc.msg

(* C14: for a name that is not registered, off OSX a probe that raised makes
   the lookup raise that same exception, required or optional, and no record
   is returned; on OSX a required lookup whose probe and framework detector
   both failed raises a DependencyException that mentions the framework
   attempt and the probe's exception. *)
C14_ProbeExceptionSurfaces ==
    (Returned /\ ~Registered /\ outcome.pkg.ran) =>
        /\ (platform # "osx" /\ Raised(outcome.pkg.exc))
              => /\ LookupRaised
                 /\ outcome.exc = outcome.pkg.exc
                 /\ ~IsDep(outcome.dep)
        /\ (platform = "osx" /\ RequiredArg = "True" /\ ~ProbeFound /\ ~ReturnedRecord)
              => TriedBoth

-----------------------------------------------------------------------------
\* the lookup returned the thread record: found, no flags, threads needed
ThreadRecord ==
    /\ ReturnedRecord
    /\ outcome.dep.class = "ThreadDependency"
    /\ outcome.dep.found
    /\ outcome.dep.compile_args = Ret(<<>>)
    /\ outcome.dep.link_args = Ret(<<>>)
    /\ outcome.dep.need_threads

\* 'required' is a bool or omitted and 'method' is a str or omitted
WellTyped ==
    /\ call.kwargs.required \in {Absent, "True", "False"}
    /\ call.kwargs.method # "<int>"

(* C15 as stated: a lookup of 'threads', in any case, returns a record with
   found() true, empty get_compile_args() and get_link_args() and
   need_threads() true, whatever other options are passed and on every
   platform. *)
C15_ThreadsAlwaysFound ==
    (Returned /\ Lower(call.name) = "threads") => ThreadRecord

(* C15 amended: a lookup of 'threads', in any case, with 'required' a bool or
   omitted and 'method' a str or omitted returns that record on every
   platform, whatever the values of the options; with 'required' or 'method'
   of another type the lookup raises DependencyException and constructs no
   detector. *)
C15_ThreadsFoundWhenWellTyped ==
    (Returned /\ Lower(call.name) = "threads") =>
        IF WellTyped THEN ThreadRecord
        ELSE /\ LookupRaised
             /\ outcome.exc.type = "DependencyException"
             /\ outcome.trace = <<>>

\* 'Threads' asked for with a method the detector does not support
C15_Witness ==
    /\ ThreadRecord
    /\ call.name = "Threads"
    /\ call.kwargs.method = "pkg-config"
    /\ call.kwargs.required = "False"
    /\ platform = "windows"

-----------------------------------------------------------------------------
\* the fallback method of a platform, as the claim lists it
PlatformFallback(os) ==
    CASE os = "windows" -> <<"sysconfig">>
      [] os = "osx" -> <<"extraframework">>
      [] OTHER -> <<>>

\* the lookup constructed the scripting-runtime detector
Python3Constructed ==
    Returned /\ outcome.trace # <<>> /\ outcome.trace[1] = "Python3Dependency"

(* C16: the python3 detector's methods are pkg-config followed by exactly
   the fallback of the current platform; in one construction the metadata
   probe is constructed first if pkg-config is among the selected methods and
   not at all otherwise, an exception of the probe does not leave the
   construction, a platform fallback runs only on its own platform and only
   if the probe did not yield found, and at most one fallback is attempted. *)
C16_ProbeThenOwnFallback ==
    Python3Constructed =>
        /\ (ReturnedRecord /\ MethodArg = "auto")
              => outcome.dep.methods = <<"pkg-config">> \o PlatformFallback(platform)
        /\ ReturnedRecord
              => SeqToSet(outcome.dep.methods)
                    \subseteq SeqToSet(<<"pkg-config">> \o PlatformFallback(platform))
        /\ IF MethodArg \in {"auto", "pkg-config"}
           THEN /\ Len(outcome.trace) >= 2
                /\ outcome.trace[2] = "PkgConfigDependency"
                /\ Constructed("PkgConfigDependency") = 1
                /\ outcome.pkg.ran
           ELSE Constructed("PkgConfigDependency") = 0 /\ ~outcome.pkg.ran
        /\ (outcome.pkg.ran /\ Raised(outcome.pkg.exc))
              => \/ ReturnedRecord
                 \/ /\ LookupRaised
                    /\ outcome.exc = Exc("DependencyException", "Dependency not found")
        /\ InTrace("_find_libpy3_windows") => platform = "windows" /\ ~ProbeFound
        /\ InTrace("ExtraFrameworkDependency") => platform = "osx" /\ ~ProbeFound
        /\ Constructed("_find_libpy3_windows") + Constructed("ExtraFrameworkDependency") <= 1

\* on Windows the probe raised, was dropped, and sysconfig found the runtime
C16_Witness ==
    /\ Python3Constructed /\ platform = "windows"
    /\ outcome.pkg.ran /\ Raised(outcome.pkg.exc)
    /\ InTrace("_find_libpy3_windows")
    /\ ReturnedRecord /\ outcome.dep.found

-----------------------------------------------------------------------------
\* the lookup constructed the Boost detector
BoostConstructed ==
    Returned /\ outcome.trace # <<>> /\ outcome.trace[1] = "BoostDependency"

\* the requested modules that are not among the source modules on disk
MissingRequested ==
    {m \in SeqToSet(ModuleList(call.kwargs.modules)) :
        m # "<int>" /\ m \notin call.env.boost_src}

\* the lookup raised the DependencyException that names a missing module
NamesMissingModule ==
    /\ LookupRaised
    /\ outcome.exc.type = "DependencyException"
    /\ outcome.exc.msg = "Requested Boost module not found."
    /\ outcome.exc.cites \in MissingRequested

\* an error of the constructor that comes before the modules are validated
BeforeValidation ==
    /\ LookupRaised
    /\ \/ outcome.exc.type \in {"MesonException", "ValueError"}
       \/ outcome.exc.msg \in {"BOOST_ROOT must be an absolute path.",
                               "BOOST_ROOT or BOOST_INCLUDEDIR is needed while cross-compiling",
                               "Boost module argument is not a string."}

\* version.hpp was found and holds a BOOST_LIB_VERSION line
VersionParsed == call.env.boost_hdr \in {"1_63", "empty"}

(* C17 as stated: constructing the Boost detector with a requested module
   that is not among the source modules always raises a DependencyException
   naming that module, whatever compiled libraries exist and whether or not
   the version header was found. *)
C17_MissingModuleAlwaysRaises ==
    (BoostConstructed /\ MissingRequested # {}) => NamesMissingModule

(* C17 amended: with a requested module that is not among the source
   modules, a construction that gets past the checks of the method, of the
   root directory and of the module names raises the DependencyException
   naming the first such module if a version was parsed from the header,
   whatever compiled libraries exist; if no version was parsed the modules
   are not validated and that exception is never raised. *)
C17_MissingModuleRaisesWhenVersioned ==
    (BoostConstructed /\ MissingRequested # {}) =>
        IF VersionParsed
        THEN \/ BeforeValidation
             \/ /\ NamesMissingModule
                /\ outcome.exc.cites
                      = BoostFirstMissing(ModuleList(call.kwargs.modules), call.env.boost_src)
        ELSE ~NamesMissingModule

\* the module 'nonexistent' is named although the library of 'thread' is there
C17_Witness ==
    /\ BoostConstructed /\ NamesMissingModule
    /\ outcome.exc.cites = "nonexistent"
    /\ call.env.boost_lib = {"thread"}
    /\ call.kwargs.required = "False"

-----------------------------------------------------------------------------
\* the queries the probe of this lookup put to the tool, in their order
Queries ==
    SelectSeq(outcome.trace,
              LAMBDA ev : ev \in {"--modversion", "--modversion!", "--cflags", "--cflags!",
                                  "--libs", "--libs!"})

\* every version requirement of the call holds of what --modversion printed
RequirementsMet ==
    \/ call.kwargs.version.t = Absent
    \/ /\ call.kwargs.version.t \in {"str", "list"}
       /\ \A i \in 1..Len(call.kwargs.version.reqs) :
             ReqHolds(call.env.mv_out.comps, call.kwargs.version.reqs[i])

(* C20: within one probe the tool is asked --modversion, --cflags, --libs in
   this order and each at most once; --cflags is asked only after
   --modversion exited 0 and every version requirement supplied was met,
   --libs only after --cflags exited 0, and a query that exits non-zero is
   the last one. *)
C20_QueriesInOrder ==
    (Returned /\ outcome.pkg.ran) =>
        /\ Queries \in {<<>>, <<"--modversion!">>, <<"--modversion">>,
                        <<"--modversion", "--cflags!">>,
                        <<"--modversion", "--cflags", "--libs!">>,
                        <<"--modversion", "--cflags", "--libs">>}
        /\ Len(Queries) >= 1 => (Queries[1] = "--modversion" <=> call.env.mv = "ok")
        /\ Len(Queries) >= 2 => /\ call.env.mv = "ok"
                                /\ RequirementsMet
                                /\ Queries[2] = "--cflags" <=> call.env.cflags = "ok"
        /\ Len(Queries) >= 3 => /\ call.env.cflags = "ok"
                                /\ Queries[3] = "--libs" <=> call.env.libs # "fail"

\* the requirement >= 2.0 was met by 2.1.0, --cflags succeeded, --libs failed
C20_Witness ==
    /\ Returned /\ outcome.pkg.ran
    /\ Queries = <<"--modversion", "--cflags", "--libs!">>
    /\ call.kwargs.version = [t |-> "str", reqs |-> <<GE20>>]
    /\ Raised(outcome.pkg.exc)

-----------------------------------------------------------------------------
\* an ExternalProgram was constructed
ProgramConstructed == ep_pc = "built"

\* the command argument as the vector the claim speaks of
Verbatim(command) == IF command.t = "str" THEN <<command.s>> ELSE command.l

(* C18: with a command override no search is made, get_command() returns
   the override unchanged (a single string as a one-element vector) and
   found() is true iff the override's first token is non-empty; without an
   override found() is true iff the first element of the command is present,
   and a search that failed leaves exactly the one-element vector [None]. *)
C18_OverrideVerbatim ==
    (ProgramConstructed /\ ep.exc = "") =>
        IF ep_in.command.t # PyNone
        THEN /\ ~ep.searched
             /\ GetCommand(ep) = Verbatim(ep_in.command)
             /\ ProgramFound(ep.command) = "True"
                   <=> /\ Verbatim(ep_in.command) # <<>>
                       /\ Verbatim(ep_in.command)[1] \notin {<<>>, NoneStr}
        ELSE /\ ep.searched
             /\ GetCommand(ep) # <<>>
             /\ ProgramFound(ep.command) = "True" <=> GetCommand(ep)[1] # NoneStr
             /\ ProgramFound(ep.command) # "True" => GetCommand(ep) = <<NoneStr>>

-----------------------------------------------------------------------------
\* the candidate search_dir/name and the file the search directory holds there
Trial == PathJoin(ep_in.search_dir, ep_in.name)
TrialFile == ep_in.fs.local.file

\* the words of a shebang line between the marker and a secondary '#'
ShebangWords(line) ==
    SplitWords(SplitFirst(SubSeq(Strip(line), 3, Len(Strip(line))), "#"))

\* the line reads #!<path>/env <interp>, possibly followed by a '#' comment
EnvForm(line) ==
    /\ line # Unreadable
    /\ StartsWith(Strip(line), <<"#", "!">>)
    /\ Len(ShebangWords(line)) = 2
    /\ Len(ShebangWords(line)[1]) >= 2
    /\ SubSeq(ShebangWords(line)[1], Len(ShebangWords(line)[1]) - 1,
              Len(ShebangWords(line)[1])) = <<"/", "env">>

\* the search met, in the search directory, a script with such a line that
\* the platform cannot execute directly
EnvScriptInSearchDir ==
    /\ ProgramConstructed /\ ep_in.command.t = PyNone
    /\ ep_in.search_dir # NoneStr
    /\ TrialFile.exists /\ ~TrialFile.isdir
    /\ ~IsExecutable(Trial, TrialFile, platform)
    /\ EnvForm(TrialFile.line)

(* C19 as stated: for such a script the result is [<interp>, scriptPath] on
   the current platform, whichever it is. *)
C19_EnvRewrittenEverywhere ==
    EnvScriptInSearchDir =>
        GetCommand(ep) = <<ShebangWords(TrialFile.line)[2], Trial>>

(* C19 amended: for such a script, on Windows with <path> beginning with '/'
   the result is [<interp>, scriptPath], with sys.executable in place of
   <interp> if <interp> is python3; on the other platforms, and on Windows
   with a <path> that does not begin with '/', it is
   [<path>/env, <interp>, scriptPath].  What follows a secondary '#' is
   ignored on every platform. *)
C19_EnvRewrittenOnWindows ==
    EnvScriptInSearchDir =>
        IF platform = "windows" /\ Head(ShebangWords(TrialFile.line)[1]) = "/"
        THEN GetCommand(ep) =
                <<IF ShebangWords(TrialFile.line)[2] = <<"python3">>
                  THEN SysExecutable ELSE ShebangWords(TrialFile.line)[2],
                  Trial>>
        ELSE GetCommand(ep) =
                <<ShebangWords(TrialFile.line)[1], ShebangWords(TrialFile.line)[2], Trial>>

\* on Windows /src/foo begins with `#!/usr/bin/env bash # note`
C19_Witness ==
    /\ EnvScriptInSearchDir /\ platform = "windows"
    /\ ep_in.name = <<"foo">>
    /\ TrialFile.line = EnvBashNote
    /\ GetCommand(ep) = << <<"bash">>, <<"/", "src", "/", "foo">> >>

-----------------------------------------------------------------------------
\* the probe of this lookup was stopped by a configuration error before it
\* came to pick the tool
ProbeMisconfigured ==
    /\ Raised(outcome.pkg.exc)
    /\ outcome.pkg.exc.msg \in {"Unsupported detection method",
                                "is not a valid DependencyMethods",
                                "Static keyword must be boolean"}

\* the lookup that has just ended ran a native probe that came to pick the tool
NativeProbe ==
    /\ Returned /\ outcome.pkg.ran /\ ~ProbeMisconfigured
    /\ ~outcome.pkg.want_cross

\* the probe neither searched for the tool nor queried it
NoSearchNoQuery ==
    /\ ~InTrace("check_pkgconfig") /\ ~InTrace("ExternalProgram")
    /\ Queries = <<>>

\* the probe ended as one without a tool: 'Pkg-config not found.' if
\* required, a not-found record otherwise
ProbeWithoutTool ==
    IF RequiredArg = "True"
    THEN outcome.pkg.exc = Exc("DependencyException", "Pkg-config not found.")
    ELSE /\ ~Raised(outcome.pkg.exc)
         /\ IsDep(outcome.pkg.dep) /\ ~outcome.pkg.dep.found

(* C21: a first native resolution of the tool that fails leaves
   class_pkgbin = False; every native probe that starts with class_pkgbin =
   False leaves it False, neither searches for the tool nor queries it, and
   ends in 'Pkg-config not found.' if required and in a not-found record if
   optional, whether or not the tool can be run by then.  As a native probe
   leaves False in place, this holds along every sequence of native lookups
   that no cross lookup interrupts. *)
C21_FailureIsMemoized ==
    [][(pc = "idle" /\ NativeProbe') =>
          /\ (class_pkgbin = PyNone /\ ~call'.env.tool_runs)
                => /\ InTrace("check_pkgconfig")'
                   /\ class_pkgbin' = PyFalse
                   /\ ProbeWithoutTool'
          /\ (class_pkgbin = PyFalse)
                => /\ class_pkgbin' = PyFalse
                   /\ NoSearchNoQuery'
                   /\ ProbeWithoutTool']_vars

\* a required native probe ends in 'Pkg-config not found.' without a search
\* although the tool could be run by now
C21_Witness ==
    /\ NativeProbe /\ class_pkgbin = PyFalse
    /\ call.env.tool_runs /\ call.env.which_finds
    /\ NoSearchNoQuery
    /\ RequiredArg = "True"
    /\ outcome.pkg.exc = Exc("DependencyException", "Pkg-config not found.")

=============================================================================
